---- MODULE Spec2Model ----
(***************************************************************************)
(* A model of pieces of the Ripple gateway:                                *)
(*   - ThunderEventProcessor: the listener registry (event_map) kept       *)
(*     behind an RwLock, driven by handle_listener;                        *)
(*   - ThunderEventHandler::callback_device_event and the last_event       *)
(*     cache (de-duplication of device events);                            *)
(*   - RouterState / resolve_route / RpcRouter::route: the method table,   *)
(*     the resource claim and the dispatch of one JSON-RPC request;        *)
(*   - ThunderPoolStep::setup: the bootstrap step that opens the           *)
(*     controller connection, the plugin manager and the request pool;     *)
(*   - boot: the ordered, fail-fast sequence of bootstrap steps;           *)
(*   - the ExtnPayloadProvider implementations of the sdk's contracts;     *)
(*   - LocalizationImpl::timezone_set;                                     *)
(*   - ThunderEventMessage::get and ThunderEventHandler::process.          *)
(* Each piece has its own next-state relation and specification; the       *)
(* variables of the other pieces stay unchanged under it.                  *)
(***************************************************************************)
EXTENDS Integers, Sequences, FiniteSets, TLC

VARIABLES
    event_map,       \* ThunderEventProcessor.event_map: event id -> handler
    event_map_lock,  \* holder of the write guard of event_map, or "free"
    lpc,             \* per caller thread: "idle" or "locked" (inside add/remove)
    lcall,           \* per caller thread: arguments of its last handle_listener call
    lret,            \* per caller thread: value its last handle_listener returned
    ops,             \* history: per app and event, what its serialised calls amount to
    last_event,      \* ThunderEventProcessor.last_event: event name -> encoded payload
    emissions,       \* history: every callback_device_event call and whether it forwarded
    dcall,           \* per caller thread: its callback_device_event call under way
    methods,         \* RouterState.methods: method name -> method entry
    methods_poisoned,\* the RwLock around methods was poisoned by a panicking writer
    totals,          \* Resources.totals: units of the resource currently claimed
    task,            \* per dispatch task: position, request, snapshot, sink, guard, output
    generation,      \* number of update_methods calls so far; names the callbacks of a call
    latest,          \* history: per method name, the last update_methods call that brought it
    extn_panicked,   \* the caller of route_extn_protocol unwound on a panic
    pool,            \* the ThunderPoolStep::setup invocation under way
    boot,            \* the run of boot(): step under way, log of its steps, panic
    codec,           \* an ExtnPayload on its way from a provider to a reader
    tz,              \* the localization.setTimeZone call under way
    proc,            \* the last ThunderEventHandler::process call and what handle received
    lib              \* the AppLibraryState built last and the last get_provider call on it

lvars == <<event_map, event_map_lock, lpc, lcall, lret, ops>>
dvars == <<last_event, emissions, dcall>>
rvars == <<methods, methods_poisoned, totals, task, generation, latest,
           extn_panicked>>
pvars == <<pool>>
bvars == <<boot>>
xvars == <<codec>>
tvars == <<tz>>
evars == <<proc>>
avars == <<lib>>

----------------------------------------------------------------------------
(* Bounds and finite input sets                                            *)

MaxListeners == 2
MaxEmissions == 3
ResourceCap == 1
MaxUpdates == 2
MaxPoolSize == 3
MaxLibrary == 2

Apps == {"appA", "appB"}
Events == {"device.onHdrChanged", "accessibility.onVoiceGuidanceSettingsChanged"}
Threads == {"t1", "t2"}

NoHandler == [id |-> "none", listeners |-> <<>>]
NoCall == [listen |-> FALSE, app_id |-> "none", id |-> "none"]
NoValue == <<>>

Range(s) == {s[i] : i \in 1..Len(s)}

----------------------------------------------------------------------------
(* ThunderEventHandler and ThunderEventProcessor: the listener registry     *)

\* ThunderEventHandlerProvider::provide(id, ..) for the event `event`: the
\* handler handed to handle_listener. Its implementations are not part of
\* the sources at hand; per the specification the handler created on first
\* use already lists the subscribing app.
provide(id, event) == [id |-> event, listeners |-> <<id>>]

add_listener_dropped(listeners, id) == listeners

\* ThunderEventHandler::add_listener: self.listeners.push(id)
add_listener(listeners, id) == Append(listeners, id)

remove_listener_first(listeners, id) ==
    IF \E i \in 1..Len(listeners) : listeners[i] = id
    THEN LET k == CHOOSE i \in 1..Len(listeners) :
                    /\ listeners[i] = id
                    /\ \A j \in 1..(i - 1) : listeners[j] # id
         IN  [i \in 1..(Len(listeners) - 1) |->
                  IF i < k THEN listeners[i] ELSE listeners[i + 1]]
    ELSE listeners

\* ThunderEventHandler::remove_listener: self.listeners.retain(|x| !x.eq(&id));
\* the returned bool is `Len(result) = 0`
remove_listener(listeners, id) == SelectSeq(listeners, LAMBDA x : x # id)

add_event_listener_always_new(map, app_id, handler) ==
    LET event_name == handler.id
    IN  IF map[event_name] # NoHandler
        THEN [map |-> [map EXCEPT ![event_name].listeners =
                            add_listener(map[event_name].listeners, app_id)],
              ret |-> TRUE]
        ELSE [map |-> [map EXCEPT ![event_name] = handler], ret |-> TRUE]

\* ThunderEventProcessor::add_event_listener
add_event_listener(map, app_id, handler) ==
    LET event_name == handler.id
    IN  IF map[event_name] # NoHandler
        THEN [map |-> [map EXCEPT ![event_name].listeners =
                            add_listener(map[event_name].listeners, app_id)],
              ret |-> FALSE]
        ELSE [map |-> [map EXCEPT ![event_name] = handler], ret |-> TRUE]

remove_event_listener_unconditional(map, event_name, app_id) ==
    [map |-> [map EXCEPT ![event_name] = NoHandler], ret |-> TRUE]

remove_event_listener_keeps_empty(map, event_name, app_id) ==
    IF map[event_name] # NoHandler
    THEN LET left == remove_listener(map[event_name].listeners, app_id)
         IN  IF Len(left) # 0
             THEN [map |-> [map EXCEPT ![event_name].listeners = left],
                   ret |-> FALSE]
             ELSE [map |-> [map EXCEPT ![event_name].listeners = left],
                   ret |-> TRUE]
    ELSE [map |-> map, ret |-> TRUE]

\* ThunderEventProcessor::remove_event_listener: when the handler exists and
\* listeners remain, return false; in every other case (the set became empty,
\* or there was no handler) remove the entry and return true.
remove_event_listener(map, event_name, app_id) ==
    IF map[event_name] # NoHandler
    THEN LET left == remove_listener(map[event_name].listeners, app_id)
         IN  IF Len(left) # 0
             THEN [map |-> [map EXCEPT ![event_name].listeners = left],
                   ret |-> FALSE]
             ELSE [map |-> [map EXCEPT ![event_name] = NoHandler],
                   ret |-> TRUE]
    ELSE [map |-> [map EXCEPT ![event_name] = NoHandler], ret |-> TRUE]

\* ThunderEventProcessor::handle_listener
handle_listener(map, listen, app_id, handler) ==
    IF listen
    THEN add_event_listener(map, app_id, handler)
    ELSE remove_event_listener(map, handler.id, app_id)

\* What the serialised calls of one app on one event amount to so far.
NextOp(old, listen) ==
    IF listen THEN "listening"
    ELSE IF old = "listening" THEN "collapsed" ELSE "unlistened"

\* self.event_map.write().unwrap(): blocks until no other guard is held
AcquireWrite(t) == lpc[t] = "idle" /\ event_map_lock = "free"

\* A thread calls handle_listener(listen, app_id, provide(app_id, ..)) and
\* obtains the write guard of event_map.
HandleListenerEnter(t, listen, app_id, event) ==
    /\ AcquireWrite(t)
    /\ listen /\ event_map[event] # NoHandler
          => Len(event_map[event].listeners) < MaxListeners
    /\ event_map_lock' = t
    /\ lpc' = [lpc EXCEPT ![t] = "locked"]
    /\ lcall' = [lcall EXCEPT ![t] =
                    [listen |-> listen, app_id |-> app_id, id |-> event]]
    /\ UNCHANGED <<event_map, lret, ops>>
    /\ UNCHANGED <<dvars, rvars, pvars, bvars, xvars, tvars, evars, avars>>

\* The body of add_event_listener / remove_event_listener under the guard,
\* the drop of the guard and the return.
HandleListenerBody(t) ==
    /\ lpc[t] = "locked"
    /\ LET c == lcall[t]
           r == handle_listener(event_map, c.listen, c.app_id,
                                provide(c.app_id, c.id))
       IN  /\ event_map' = r.map
           /\ lret' = [lret EXCEPT ![t] = r.ret]
           /\ ops' = [ops EXCEPT ![c.app_id][c.id] = NextOp(@, c.listen)]
    /\ event_map_lock' = "free"
    /\ lpc' = [lpc EXCEPT ![t] = "idle"]
    /\ UNCHANGED lcall
    /\ UNCHANGED <<dvars, rvars, pvars, bvars, xvars, tvars, evars, avars>>

NextListeners ==
    \/ \E t \in Threads, listen \in BOOLEAN, a \in Apps, e \in Events :
           HandleListenerEnter(t, listen, a, e)
    \/ \E t \in Threads : HandleListenerBody(t)

----------------------------------------------------------------------------
(* callback_device_event and the last_event cache                          *)

ExtnEventVariants == {"AppEvent", "PowerState", "Value"}
Bodies == {"P", "Q"}
ExtnEvents == [variant : ExtnEventVariants, body : Bodies]

\* serde_json::to_value(ExtnEvent): an externally tagged object {variant: body}
to_value(event) == <<event.variant, event.body>>

check_last_event_always(cache, event_name, event) == TRUE

check_last_event_changed(cache, event_name, event) ==
    IF cache[event_name] # NoValue
    THEN cache[event_name] # to_value(event)
    ELSE TRUE

\* ThunderEventProcessor::check_last_event
check_last_event(cache, event_name, event) ==
    IF cache[event_name] # NoValue
    THEN cache[event_name] = to_value(event)
    ELSE FALSE

\* ThunderEventProcessor::add_last_event
add_last_event(cache, event_name, event) ==
    [cache EXCEPT ![event_name] = to_value(event)]

\* The match in callback_device_event: only AppEvent and PowerState are
\* handed to request_transient, any other variant is Err(InvalidOutput).
Forwardable(event) == event.variant \in {"AppEvent", "PowerState"}

\* ThunderEventHandler::callback_device_event
callback_device_event(event_name, event) ==
    /\ Len(emissions) < MaxEmissions
    /\ IF check_last_event(last_event, event_name, event)
       THEN /\ last_event' = add_last_event(last_event, event_name, event)
            /\ emissions' = Append(emissions,
                   [event_name |-> event_name, event |-> event,
                    forwarded |-> Forwardable(event)])
       ELSE /\ last_event' = last_event
            /\ emissions' = Append(emissions,
                   [event_name |-> event_name, event |-> event,
                    forwarded |-> FALSE])
    /\ UNCHANGED dcall
    /\ UNCHANGED <<lvars, rvars, pvars, bvars, xvars, tvars, evars, avars>>

NextDedup ==
    \E n \in Events, ev \in ExtnEvents : callback_device_event(n, ev)

\* callback_device_event as its callers on several threads run it: the
\* comparison takes the read guard of last_event and drops it on return; the
\* branch it selects takes the write guard on its own.
NoEmission == [pc |-> "idle", event_name |-> "none",
               event |-> [variant |-> "none", body |-> "none"],
               same |-> FALSE, forwarded |-> FALSE]

\* `if state.event_processor.check_last_event(&event_name, &event)`: the
\* comparison of thread t's call, under the read guard
CheckLastEvent(t, event_name, event) ==
    /\ dcall[t].pc = "idle"
    /\ dcall' = [dcall EXCEPT ![t] =
                    [pc |-> "compared", event_name |-> event_name,
                     event |-> event,
                     same |-> check_last_event(last_event, event_name, event),
                     forwarded |-> FALSE]]
    /\ UNCHANGED <<last_event, emissions>>
    /\ UNCHANGED <<lvars, rvars, pvars, bvars, xvars, tvars, evars, avars>>

\* The branch the comparison selected: add_last_event under the write guard
\* and request_transient, or the "Already sent" trace; then the return.
ForwardOrDrop(t) ==
    /\ dcall[t].pc = "compared"
    /\ IF dcall[t].same
       THEN /\ last_event' = add_last_event(last_event, dcall[t].event_name,
                                            dcall[t].event)
            /\ dcall' = [dcall EXCEPT ![t].pc = "idle",
                                      ![t].forwarded = Forwardable(dcall[t].event)]
       ELSE /\ last_event' = last_event
            /\ dcall' = [dcall EXCEPT ![t].pc = "idle"]
    /\ UNCHANGED emissions
    /\ UNCHANGED <<lvars, rvars, pvars, bvars, xvars, tvars, evars, avars>>

NextEmitters ==
    \/ \E t \in Threads, n \in Events, ev \in ExtnEvents :
           CheckLastEvent(t, n, ev)
    \/ \E t \in Threads : ForwardOrDrop(t)

----------------------------------------------------------------------------
(* RouterState, resolve_route, RpcRouter::route and route_extn_protocol    *)

MethodNames == {"localization.locality", "device.name"}
MethodKinds == {"Sync", "Async", "Subscription"}
Labels == {"cpu", "unregistered"}
Tasks == {1, 2}

\* The sessions a request may arrive on, and "extn" for a request that came
\* over the extn bus with a callback.
Sessions == {"ws-session", "ws-session-2", "bridge-session", "bridge-session-2"}
Origins == Sessions \cup {"extn"}

MethodNotFound == -32601
HandlerError == -32000

NoMethod == [kind |-> "none", units |-> 0, handler |-> 0]
NoFrame == [id |-> 0, kind |-> "none", code |-> 0]
NoRequest == [call_id |-> 0, method |-> "none", request_id |-> "none",
              protocol |-> "none", origin |-> "none"]

\* The units a method may declare on the resource: none, as many as the
\* resource holds (one such call fits, two at a time do not), or more than
\* the resource holds.
UnitChoices == {0, ResourceCap, ResourceCap + 1}

\* A method as handed to update_methods: its kind and the units it declares
\* on a resource label.
MethodDecls == [kind : MethodKinds, units : UnitChoices, label : Labels]

\* Methods::initialize_resources(&resources): fails when a method names a
\* label the resource table does not hold; otherwise each method carries its
\* units.
initialize_resources_ok(decls) ==
    \A m \in DOMAIN decls : decls[m].label = "cpu"

merge_partial(table, decls, gen) ==
    [m \in MethodNames |->
        IF m \in DOMAIN decls /\ table[m] = NoMethod
        THEN [kind |-> decls[m].kind, units |-> decls[m].units,
              handler |-> gen]
        ELSE table[m]]

\* Methods::merge(other): refuses the whole set when one of its names is
\* already registered, otherwise inserts every method of it. `gen` names the
\* callbacks this update_methods call brought.
merge(table, decls, gen) ==
    IF \E m \in DOMAIN decls : table[m] # NoMethod
    THEN table
    ELSE [m \in MethodNames |->
             IF m \in DOMAIN decls
             THEN [kind |-> decls[m].kind, units |-> decls[m].units,
                   handler |-> gen]
             ELSE table[m]]

\* RouterState::update_methods: take the write lock (which waits for every
\* read guard to be dropped), initialise the resources
\* of the incoming methods (unwrap: a failure panics with the guard held,
\* which poisons the lock), merge and ignore the merge result.
update_methods(decls) ==
    /\ generation < MaxUpdates
    /\ ~methods_poisoned
    /\ \A t \in Tasks : task[t].read_guard # "held"
    /\ generation' = generation + 1
    /\ latest' = [m \in MethodNames |->
                     IF m \in DOMAIN decls THEN generation + 1 ELSE latest[m]]
    /\ IF initialize_resources_ok(decls)
       THEN /\ methods' = merge(methods, decls, generation + 1)
            /\ UNCHANGED methods_poisoned
       ELSE /\ methods_poisoned' = TRUE
            /\ UNCHANGED methods
    /\ UNCHANGED <<totals, task, extn_panicked>>
    /\ UNCHANGED <<lvars, dvars, pvars, bvars, xvars, tvars, evars, avars>>

IdleTask == [pc |-> "idle", req |-> NoRequest, snapshot |-> <<>>,
             sink |-> <<>>, guard |-> 0, invoked |-> FALSE, out |-> NoFrame,
             sent |-> <<>>, read_guard |-> "none"]

\* CallContext.call_id of the request a task serves (unique per in-flight call)
CallId(t) == t

\* CallContext.request_id of the request a task serves
RequestId(t) == <<"request", t>>

\* Session::get_transport
get_transport(session) ==
    CASE session = "bridge-session" ->
            [kind |-> "Bridge", container_id |-> "container-1"]
      [] session = "bridge-session-2" ->
            [kind |-> "Bridge", container_id |-> "container-2"]
      [] OTHER -> [kind |-> "Websocket", container_id |-> "none"]

\* CallContext.protocol of a request: the protocol of the way it came in
Protocol(origin) ==
    CASE origin = "extn" -> "Extn"
      [] get_transport(origin).kind = "Bridge" -> "Bridge"
      [] OTHER -> "JsonRpc"

\* The RpcRequest a task serves for `method`, come in over `origin`
Request(t, method, origin) ==
    [call_id |-> CallId(t), method |-> method, request_id |-> RequestId(t),
     protocol |-> Protocol(origin), origin |-> origin]

\* MethodSink::send_error(id, code): the error frame written to the sink
send_error(id, code) == [id |-> id, kind |-> "error", code |-> code]

\* What a handler may write to its sink for call `id`: nothing, a result
\* frame or an error frame of its own.
HandlerOutputs(id) ==
    { <<>>,
      << [id |-> id, kind |-> "result", code |-> 0] >>,
      << send_error(id, HandlerError) >> }

\* The same, and what a handler that does not keep to one well-formed frame
\* may write: a frame with neither result nor error, or two frames.
ReplyOutputs(id) ==
    HandlerOutputs(id) \cup
    { << [id |-> id, kind |-> "bare", code |-> 0] >>,
      << [id |-> id, kind |-> "result", code |-> 0],
         send_error(id, HandlerError) >> }

\* RouterState::get_methods as used by the dispatch of `name`: the clone of
\* the table, kept for the one name resolve_route looks up in it
get_methods(table, name) == [m \in {name} |-> table[m]]

\* Methods::method_with_name(&req.method) on the snapshot
method_with_name(snapshot, name) ==
    IF name \in DOMAIN snapshot THEN snapshot[name] ELSE NoMethod

Resolved_live(t) == methods[task[t].req.method]

\* The entry task t's snapshot holds for the method it was asked for.
Resolved(t) == method_with_name(task[t].snapshot, task[t].req.method)

claim_unchecked(units, claimed) == TRUE

\* MethodCallback::claim(name, &resources): Ok(guard) when the units fit under
\* the capacity next to what is already claimed, Err otherwise
claim(units, claimed) == claimed + units <= ResourceCap

release_leaking(claimed, guard) == claimed

\* Drop of the ResourceGuard: the units go back to the table
release(claimed, guard) == claimed - guard

route_none(entry, claimed) ==
    CASE entry = NoMethod -> "unsupported"
      [] entry.kind = "Sync" ->
            IF claim(entry.units, claimed) THEN "sync" ELSE "refused"
      [] entry.kind = "Async" ->
            IF claim(entry.units, claimed) THEN "async" ELSE "refused"
      [] OTHER -> "unsupported"

\* The match in resolve_route: which arm a looked-up entry takes
route(entry, claimed) ==
    CASE entry = NoMethod -> "not_found"
      [] entry.kind = "Sync" ->
            IF claim(entry.units, claimed) THEN "sync" ELSE "refused"
      [] entry.kind = "Async" ->
            IF claim(entry.units, claimed) THEN "async" ELSE "refused"
      [] OTHER -> "unsupported"

read_guard_kept == "held"

\* The read guard of get_methods: a temporary of `self.methods.read()
\* .unwrap().clone()`, dropped at the end of that statement
read_guard == "dropped"

spawn_inline(t, method, origin) ==
    [IdleTask EXCEPT !.pc = IF \E u \in Tasks \ {t} :
                                   task[u].pc \in {"running", "awaiting"}
                            THEN "queued"
                            ELSE "spawned",
                     !.req = Request(t, method, origin),
                     !.snapshot = get_methods(methods, method),
                     !.read_guard = read_guard]

\* The state a dispatch task starts in: the request, and the clone of the
\* method table taken by get_methods() before tokio::spawn. Every dispatch
\* is a tokio task of its own and starts whatever the others are doing.
spawn(t, method, origin) ==
    [IdleTask EXCEPT !.pc = "spawned",
                     !.req = Request(t, method, origin),
                     !.snapshot = get_methods(methods, method),
                     !.read_guard = read_guard]

\* RpcRouter::route up to tokio::spawn: get_methods() clones the table under
\* the read lock (unwrap: panics on a poisoned lock), the task is spawned.
Route(t, method, session) ==
    /\ task[t].pc = "idle"
    /\ ~methods_poisoned
    /\ task' = [task EXCEPT ![t] = spawn(t, method, session)]
    /\ UNCHANGED <<methods, methods_poisoned, totals, generation, latest,
                   extn_panicked>>
    /\ UNCHANGED <<lvars, dvars, pvars, bvars, xvars, tvars, evars, avars>>

\* RpcRouter::route_extn_protocol up to tokio::spawn: a missing callback is
\* logged and then unwrapped, which panics in the caller; otherwise as route.
RouteExtn(t, method, has_callback) ==
    /\ task[t].pc = "idle"
    /\ ~extn_panicked
    /\ IF ~has_callback
       THEN /\ extn_panicked' = TRUE
            /\ UNCHANGED task
       ELSE /\ ~methods_poisoned
            /\ task' = [task EXCEPT ![t] = spawn(t, method, "extn")]
            /\ UNCHANGED extn_panicked
    /\ UNCHANGED <<methods, methods_poisoned, totals, generation, latest>>
    /\ UNCHANGED <<lvars, dvars, pvars, bvars, xvars, tvars, evars, avars>>

\* resolve_route up to the handler: look the method up, claim its resources
\* and either start the sync handler (holding the guard), queue the async
\* handler with its guard, or write the error frame.
ResolveRoute(t) ==
    /\ task[t].pc = "spawned"
    /\ LET id == task[t].req.call_id
           entry == Resolved(t)
           arm == route(entry, totals)
       IN  CASE arm = "sync" ->
                   /\ task' = [task EXCEPT ![t].pc = "running",
                                           ![t].guard = entry.units]
                   /\ totals' = totals + entry.units
             [] arm = "async" ->
                   /\ task' = [task EXCEPT ![t].pc = "awaiting",
                                           ![t].guard = entry.units]
                   /\ totals' = totals + entry.units
             [] arm \in {"not_found", "refused"} ->
                   /\ task' = [task EXCEPT ![t].pc = "joined",
                                           ![t].sink = <<send_error(id, MethodNotFound)>>]
                   /\ UNCHANGED totals
             [] OTHER ->
                   /\ task' = [task EXCEPT ![t].pc = "joined"]
                   /\ UNCHANGED totals
    /\ UNCHANGED <<methods, methods_poisoned, generation, latest, extn_panicked>>
    /\ UNCHANGED <<lvars, dvars, pvars, bvars, xvars, tvars, evars, avars>>

\* (callback)(id, params, &sink) of a sync method: the handler writes to the
\* sink; _guard is dropped at the end of the match arm.
SyncHandler(t, frames) ==
    /\ task[t].pc = "running"
    /\ task' = [task EXCEPT ![t].pc = "joined",
                            ![t].invoked = TRUE,
                            ![t].sink = frames,
                            ![t].guard = 0]
    /\ totals' = release(totals, task[t].guard)
    /\ UNCHANGED <<methods, methods_poisoned, generation, latest, extn_panicked>>
    /\ UNCHANGED <<lvars, dvars, pvars, bvars, xvars, tvars, evars, avars>>

\* join_all(method_executors): the queued async handler runs to completion,
\* writes to its sink and drops the guard it was given.
AsyncHandler(t, frames) ==
    /\ task[t].pc = "awaiting"
    /\ task' = [task EXCEPT ![t].pc = "joined",
                            ![t].invoked = TRUE,
                            ![t].sink = frames,
                            ![t].guard = 0]
    /\ totals' = release(totals, task[t].guard)
    /\ UNCHANGED <<methods, methods_poisoned, generation, latest, extn_panicked>>
    /\ UNCHANGED <<lvars, dvars, pvars, bvars, xvars, tvars, evars, avars>>

take_all(sink) == sink

\* sink_rx.next().await: the one frame resolve_route takes from the sink
take(sink) == <<Head(sink)>>

ApiMessage_first_request(req, frame) ==
    [protocol |-> req.protocol, jsonrpc_msg |-> frame,
     request_id |-> RequestId(1)]

\* ApiMessage::new(req.ctx.protocol, r, req.ctx.request_id)
ApiMessage(req, frame) ==
    [protocol |-> req.protocol, jsonrpc_msg |-> frame,
     request_id |-> req.request_id]

send_to_first_session(req, msg) ==
    [to |-> [kind |-> "Websocket", session |-> "ws-session",
             container_id |-> "none"],
     msg |-> msg]

\* The match on session.get_transport() in RpcRouter::route:
\* session.send_json_rpc(msg) or state.send_to_bridge(container_id, msg)
send_to_session(req, msg) ==
    LET transport == get_transport(req.origin)
    IN  IF transport.kind = "Websocket"
        THEN [to |-> [kind |-> "Websocket", session |-> req.origin,
                      container_id |-> "none"],
              msg |-> msg]
        ELSE [to |-> [kind |-> "Bridge", session |-> "none",
                      container_id |-> transport.container_id],
              msg |-> msg]

extn_value_result_only(frame) ==
    CASE frame.kind = "result" -> [kind |-> "result", code |-> frame.code]
      [] OTHER -> [kind |-> "InvalidOutput", code |-> 0]

\* The value route_extn_protocol takes from the parsed JsonRpcApiResponse:
\* its result, else its error object, else InvalidOutput
extn_value(frame) ==
    CASE frame.kind = "result" -> [kind |-> "result", code |-> frame.code]
      [] frame.kind = "error" -> [kind |-> "error", code |-> frame.code]
      [] OTHER -> [kind |-> "InvalidOutput", code |-> 0]

\* callback.send(extn_msg.get_response(ExtnResponse::Value(value)))
send_to_callback(req, msg) ==
    [to |-> [kind |-> "Callback", session |-> "none", container_id |-> "none"],
     msg |-> [protocol |-> msg.protocol,
              jsonrpc_msg |-> extn_value(msg.jsonrpc_msg),
              request_id |-> msg.request_id]]

\* sink_rx.next().await and the delivery in RpcRouter::route: the first frame
\* of the sink becomes the ApiMessage sent to the session. With an empty sink
\* the sender is still alive, so next() does not return.
Respond(t) ==
    /\ task[t].pc = "joined"
    /\ task[t].req.origin \in Sessions
    /\ task[t].sink # <<>>
    /\ LET taken == take(task[t].sink)
       IN  task' = [task EXCEPT
                       ![t].pc = "done",
                       ![t].out = Head(taken),
                       ![t].sink = Tail(task[t].sink),
                       ![t].sent = [i \in 1..Len(taken) |->
                                       send_to_session(task[t].req,
                                           ApiMessage(task[t].req, taken[i]))]]
    /\ UNCHANGED <<methods, methods_poisoned, totals, generation, latest,
                   extn_panicked>>
    /\ UNCHANGED <<lvars, dvars, pvars, bvars, xvars, tvars, evars, avars>>

\* sink_rx.next().await and the reply in route_extn_protocol: the first frame
\* of the sink is parsed and its value is sent on the extn message's callback.
RespondExtn(t) ==
    /\ task[t].pc = "joined"
    /\ task[t].req.origin = "extn"
    /\ task[t].sink # <<>>
    /\ LET taken == take(task[t].sink)
       IN  task' = [task EXCEPT
                       ![t].pc = "done",
                       ![t].out = Head(taken),
                       ![t].sink = Tail(task[t].sink),
                       ![t].sent = [i \in 1..Len(taken) |->
                                       send_to_callback(task[t].req,
                                           ApiMessage(task[t].req, taken[i]))]]
    /\ UNCHANGED <<methods, methods_poisoned, totals, generation, latest,
                   extn_panicked>>
    /\ UNCHANGED <<lvars, dvars, pvars, bvars, xvars, tvars, evars, avars>>

\* The spawned task ends; its slot serves the next request.
TaskExit(t) ==
    /\ task[t].pc = "done"
    /\ task' = [task EXCEPT ![t] = IdleTask]
    /\ UNCHANGED <<methods, methods_poisoned, totals, generation, latest,
                   extn_panicked>>
    /\ UNCHANGED <<lvars, dvars, pvars, bvars, xvars, tvars, evars, avars>>

\* Dispatches of requests from one session, any number of them in flight,
\* against a method table that is updated meanwhile.
NextRouter ==
    \/ \E m \in MethodNames :
           \E decls \in [{m} -> MethodDecls] : update_methods(decls)
    \/ \E t \in Tasks, m \in MethodNames : Route(t, m, "ws-session")
    \/ \E t \in Tasks : ResolveRoute(t)
    \/ \E t \in Tasks :
           \E frames \in HandlerOutputs(CallId(t)) : SyncHandler(t, frames)
    \/ \E t \in Tasks :
           \E frames \in HandlerOutputs(CallId(t)) : AsyncHandler(t, frames)
    \/ \E t \in Tasks : Respond(t)
    \/ \E t \in Tasks : TaskExit(t)

\* One dispatch at a time from one session, against a method table that is
\* updated with sets of one method or several.
NextRegistry ==
    \/ \E names \in (SUBSET MethodNames) \ {{}} :
           \E decls \in [names -> MethodDecls] : update_methods(decls)
    \/ \E m \in MethodNames : Route(1, m, "ws-session")
    \/ ResolveRoute(1)
    \/ \E frames \in HandlerOutputs(CallId(1)) : SyncHandler(1, frames)
    \/ \E frames \in HandlerOutputs(CallId(1)) : AsyncHandler(1, frames)
    \/ Respond(1)
    \/ TaskExit(1)

\* Methods that declare no resource units (none of them is ever refused)
FreeDecls == {d \in MethodDecls : d.units = 0 /\ d.label = "cpu"}

\* One dispatch at a time, arriving on either session or over the extn bus,
\* with handlers that may write any of ReplyOutputs.
NextReply ==
    \/ \E m \in MethodNames :
           \E decls \in [{m} -> FreeDecls] : update_methods(decls)
    \/ \E m \in MethodNames, s \in Sessions : Route(1, m, s)
    \/ \E m \in MethodNames, cb \in BOOLEAN : RouteExtn(1, m, cb)
    \/ ResolveRoute(1)
    \/ \E frames \in ReplyOutputs(CallId(1)) : SyncHandler(1, frames)
    \/ \E frames \in ReplyOutputs(CallId(1)) : AsyncHandler(1, frames)
    \/ Respond(1)
    \/ RespondExtn(1)
    \/ TaskExit(1)

----------------------------------------------------------------------------
(* ThunderPoolStep::setup                                                  *)

PoolSizes == 0..MaxPoolSize
PluginNames == {"Controller", "DeviceInfo", "DisplaySettings"}

\* The errors ThunderClientPool::start may return: a connection that cannot
\* be opened is a BootstrapError
StartErrors == {"BootstrapError"}

NoSetup == [pc |-> "idle", pool_size |-> 0, plugin_param |-> {},
            starts |-> <<>>,
            plugin_manager |-> [started |-> FALSE, expected |-> {}],
            events |-> <<>>, result |-> "none"]

below_minimum_lax(pool_size) == pool_size < 1

\* The test `pool_size < 2` at the head of setup
below_minimum(pool_size) == pool_size < 2

\* setup is called with the configured pool_size and plugin_param; a pool
\* size below the minimum returns Err(BootstrapError) at once.
Setup(pool_size, plugin_param) ==
    /\ pool.pc = "idle"
    /\ IF below_minimum(pool_size)
       THEN pool' = [pool EXCEPT !.pc = "returned",
                                 !.pool_size = pool_size,
                                 !.plugin_param = plugin_param,
                                 !.result = "BootstrapError"]
       ELSE pool' = [pool EXCEPT !.pc = "controller",
                                 !.pool_size = pool_size,
                                 !.plugin_param = plugin_param]
    /\ UNCHANGED <<lvars, dvars, rvars, bvars, xvars, tvars, evars, avars>>

after_start_ignoring(outcome, next) == next

\* `if controller_pool.is_err()` / `if client.is_err()`: where setup goes
\* after a ThunderClientPool::start call, `next` being the step that follows
\* a connection that opened
after_start(outcome, next) == IF outcome = "Ok" THEN next ELSE "returned"

status_event_silent(outcome) == <<>>

\* `let _ = state.extn_client.event(ExtnStatus::Error)` in the error branch
\* of a ThunderClientPool::start call
status_event(outcome) == IF outcome = "Ok" THEN <<>> ELSE <<"Error">>

\* ThunderClientPool::start(url, None, 1): the controller connection. On an
\* error ExtnStatus::Error is sent and the error is returned.
StartControllerPool(outcome) ==
    /\ pool.pc = "controller"
    /\ LET call == [role |-> "controller", plugin_manager_tx |-> FALSE,
                    size |-> 1, outcome |-> outcome]
       IN  pool' = [pool EXCEPT
                       !.pc = after_start(outcome, "plugin_manager"),
                       !.starts = Append(@, call),
                       !.events = @ \o status_event(outcome),
                       !.result = IF outcome = "Ok" THEN @ ELSE outcome]
    /\ UNCHANGED <<lvars, dvars, rvars, bvars, xvars, tvars, evars, avars>>

\* PluginManager::start(Box::new(controller_pool), expected_plugins)
StartPluginManager ==
    /\ pool.pc = "plugin_manager"
    /\ pool' = [pool EXCEPT !.pc = "request_pool",
                            !.plugin_manager = [started |-> TRUE,
                                                expected |-> pool.plugin_param]]
    /\ UNCHANGED <<lvars, dvars, rvars, bvars, xvars, tvars, evars, avars>>

request_pool_size_whole(pool_size) == pool_size

\* The size argument of the second ThunderClientPool::start call: what is
\* left of pool_size after the controller connection
request_pool_size(pool_size) == pool_size - 1

\* ThunderClientPool::start(url, Some(plugin_manager_tx), pool_size - 1): the
\* request pool. On an error ExtnStatus::Error is sent and the error returned.
StartRequestPool(outcome) ==
    /\ pool.pc = "request_pool"
    /\ LET call == [role |-> "request", plugin_manager_tx |-> TRUE,
                    size |-> request_pool_size(pool.pool_size),
                    outcome |-> outcome]
       IN  pool' = [pool EXCEPT
                       !.pc = after_start(outcome, "connected"),
                       !.starts = Append(@, call),
                       !.events = @ \o status_event(outcome),
                       !.result = IF outcome = "Ok" THEN @ ELSE outcome]
    /\ UNCHANGED <<lvars, dvars, rvars, bvars, xvars, tvars, evars, avars>>

ready_event_repeated(events) == events \o <<"Ready", "Ready">>

\* `let _ = state.extn_client.event(ExtnStatus::Ready)`: the one event of a
\* setup whose two start calls both returned Ok
ready_event(events) == Append(events, "Ready")

\* extn_client.event(ExtnStatus::Ready) and the Ok return
SetupReady ==
    /\ pool.pc = "connected"
    /\ pool' = [pool EXCEPT !.pc = "returned",
                            !.events = ready_event(@),
                            !.result = "Ok"]
    /\ UNCHANGED <<lvars, dvars, rvars, bvars, xvars, tvars, evars, avars>>

\* The invocation is over; the step may be run again.
SetupOver ==
    /\ pool.pc = "returned"
    /\ pool' = NoSetup
    /\ UNCHANGED <<lvars, dvars, rvars, bvars, xvars, tvars, evars, avars>>

NextPool ==
    \/ \E n \in PoolSizes, plugins \in SUBSET PluginNames : Setup(n, plugins)
    \/ \E outcome \in {"Ok"} \cup StartErrors : StartControllerPool(outcome)
    \/ StartPluginManager
    \/ \E outcome \in {"Ok"} \cup StartErrors : StartRequestPool(outcome)
    \/ SetupReady
    \/ SetupOver

----------------------------------------------------------------------------
(* boot                                                                     *)

\* The steps boot chains, in the order of the chain
BootSteps == <<"SetupExtnClientStep", "StartWsStep", "FireboltGatewayStep">>

\* The message of the expect() that follows each step
ExpectMessages == <<"Extn Client setup failure", "Websocket startup failure",
                    "Firebolt Gateway failure">>

\* The errors a step may fail with
RippleErrors == {"NoContract", "SendFailure", "CallbackClosed", "Timeout",
                 "InvalidOutput", "BootstrapError", "InvalidInput"}

NoBoot == [next |-> 1, running |-> FALSE, log |-> <<>>, panic |-> "none",
           err |-> "none"]

expect_lenient(outcome, msg) == "none"

\* Result::expect(msg): passes an Ok on, panics with msg on an Err
expect(outcome, msg) == IF outcome = "Ok" THEN "none" ELSE msg

next_step_skipping(i) == i + 2

\* The chain `.step(..).await.expect(..).step(..)`: the step after step i
next_step(i) == i + 1

\* bootstrap.step(S): the next step of the chain is started
StepBegin ==
    /\ boot.panic = "none"
    /\ ~boot.running
    /\ boot.next \in DOMAIN BootSteps
    /\ boot' = [boot EXCEPT !.running = TRUE,
                            !.log = Append(@, <<BootSteps[boot.next], "started">>)]
    /\ UNCHANGED <<lvars, dvars, rvars, pvars, xvars, tvars, evars, avars>>

\* .await.expect(msg): the step under way completes or fails with an error;
\* on a failure boot panics with the message of that step.
StepEnd(outcome) ==
    /\ boot.running
    /\ LET panic == expect(outcome, ExpectMessages[boot.next])
       IN  boot' = [boot EXCEPT
                       !.running = FALSE,
                       !.log = Append(@, <<BootSteps[boot.next],
                                   IF outcome = "Ok" THEN "completed" ELSE "failed">>),
                       !.panic = panic,
                       !.err = IF outcome = "Ok" THEN @ ELSE outcome,
                       !.next = IF panic = "none" THEN next_step(@) ELSE @]
    /\ UNCHANGED <<lvars, dvars, rvars, pvars, xvars, tvars, evars, avars>>

\* boot of the main process, with the setup of the Thunder extension going
\* on beside it
NextBoot ==
    \/ StepBegin
    \/ \E outcome \in {"Ok"} \cup RippleErrors : StepEnd(outcome)
    \/ \E n \in PoolSizes, plugins \in SUBSET PluginNames : Setup(n, plugins)
    \/ \E outcome \in {"Ok"} \cup StartErrors : StartControllerPool(outcome)
    \/ StartPluginManager
    \/ \E outcome \in {"Ok"} \cup StartErrors : StartRequestPool(outcome)
    \/ SetupReady
    \/ SetupOver

----------------------------------------------------------------------------
(* ExtnPayloadProvider implementations                                     *)

Providers == {"DeviceInfoRequest", "WifiRequest", "BrowserRequest",
              "CapsRequest", "PermissionRequest", "PermissionResponse",
              "AdvertisingRequest", "AdvertisingResponse", "DeviceResponse"}

\* A value of a contract type: its variant (the type name for a struct or a
\* Vec) and its content
Val(variant, arg) == [variant |-> variant, arg |-> arg]
NoVal == Val("none", "")

\* Some values of each provider type
Values(T) ==
    CASE T = "DeviceInfoRequest" ->
            {Val("MacAddress", ""), Val("GetAvailableTimezones", ""),
             Val("SetTimezone", "America/New_York"),
             Val("SetVoiceGuidanceEnabled", "true")}
      [] T = "WifiRequest" ->
            {Val("Scan", "5"), Val("Connect", "ssid/passphrase/wpa2Psk")}
      [] T = "BrowserRequest" ->
            {Val("Destroy", "browser"), Val("GetBrowserName", "runtime/name/1")}
      [] T = "CapsRequest" ->
            {Val("Supported", "xrn:firebolt:capability:device:info"),
             Val("Permitted", "app/xrn:firebolt:capability:device:info:use")}
      [] T = "PermissionRequest" ->
            {Val("PermissionRequest", "app1/session1"),
             Val("PermissionRequest", "app2/session1")}
      [] T = "PermissionResponse" ->
            {Val("Vec", ""), Val("Vec", "xrn:firebolt:capability:device:info:use")}
      [] T = "AdvertisingRequest" ->
            {Val("ResetAdIdentifier", "session1"), Val("GetAdIdObject", "app1/session1")}
      [] T = "AdvertisingResponse" ->
            {Val("None", ""), Val("AdIdObject", "ifa/type/lmt")}
      [] OTHER ->
            {Val("CustomError", "failed"),
             Val("ScreenResolutionResponse", "1920,1080"),
             Val("VideoResolutionResponse", "1920,1080"),
             Val("HdrResponse", "hdr10:true")}

\* The JSON type serde writes for the content of each DeviceResponse variant
DeviceResponseJson ==
    [CustomError |-> "string", AudioProfileResponse |-> "object",
     HdcpSupportResponse |-> "object", HdcpStatusResponse |-> "object",
     HdrResponse |-> "object", FirmwareInfo |-> "object",
     ScreenResolutionResponse |-> "array", VideoResolutionResponse |-> "array",
     FullCapabilities |-> "object"]

\* serde_json::to_value of a DeviceResponse: an object with one key, the
\* variant name, holding the content
to_json(x) ==
    [variant |-> "json",
     arg |-> <<x.variant, DeviceResponseJson[x.variant], x.arg>>]

\* serde_json::from_value::<DeviceResponse>: Ok for an object whose one key
\* is a variant name and whose content has the type of that variant
from_json(v) ==
    IF /\ v.variant = "json"
       /\ v.arg[1] \in DOMAIN DeviceResponseJson
       /\ v.arg[2] = DeviceResponseJson[v.arg[1]]
    THEN [ok |-> TRUE, value |-> Val(v.arg[1], v.arg[3])]
    ELSE [ok |-> FALSE, value |-> NoVal]

\* ExtnPayload::Request(ExtnRequest::V(..)), ::Response(ExtnResponse::V(..))
\* and, for ExtnRequest::Device, the DeviceRequest variant inside
ExtnPayload(kind, variant, device, body) ==
    [kind |-> kind, variant |-> variant, device |-> device, body |-> body]

Some(x) == [some |-> TRUE, value |-> x]
None == [some |-> FALSE, value |-> NoVal]

get_extn_payload_as_device_info(T, x) ==
    CASE T \in {"DeviceInfoRequest", "WifiRequest", "BrowserRequest"} ->
            ExtnPayload("Request", "Device", "DeviceInfo", x)
      [] T = "CapsRequest" -> ExtnPayload("Request", "AuthorizedInfo", "none", x)
      [] T = "PermissionRequest" -> ExtnPayload("Request", "Permission", "none", x)
      [] T = "PermissionResponse" -> ExtnPayload("Response", "Permission", "none", x)
      [] T = "AdvertisingRequest" -> ExtnPayload("Request", "Advertising", "none", x)
      [] T = "AdvertisingResponse" -> ExtnPayload("Response", "Advertising", "none", x)
      [] OTHER -> ExtnPayload("Response", "Value", "none", to_json(x))

\* <T as ExtnPayloadProvider>::get_extn_payload(&x)
get_extn_payload(T, x) ==
    CASE T = "DeviceInfoRequest" -> ExtnPayload("Request", "Device", "DeviceInfo", x)
      [] T = "WifiRequest" -> ExtnPayload("Request", "Device", "Wifi", x)
      [] T = "BrowserRequest" -> ExtnPayload("Request", "Device", "Browser", x)
      [] T = "CapsRequest" -> ExtnPayload("Request", "AuthorizedInfo", "none", x)
      [] T = "PermissionRequest" -> ExtnPayload("Request", "Permission", "none", x)
      [] T = "PermissionResponse" -> ExtnPayload("Response", "Permission", "none", x)
      [] T = "AdvertisingRequest" -> ExtnPayload("Request", "Advertising", "none", x)
      [] T = "AdvertisingResponse" -> ExtnPayload("Response", "Advertising", "none", x)
      [] OTHER -> ExtnPayload("Response", "Value", "none", to_json(x))

\* The match of a get_from_payload: Some(body) for the one kind, variant and
\* DeviceRequest variant it names, None for the `_ => {}` arms
match_payload(p, kind, variant, device) ==
    IF p.kind = kind /\ p.variant = variant /\ p.device = device
    THEN Some(p.body)
    ELSE None

get_from_payload_any_device(T, p) ==
    CASE T \in {"DeviceInfoRequest", "WifiRequest", "BrowserRequest"} ->
            IF p.kind = "Request" /\ p.variant = "Device" THEN Some(p.body) ELSE None
      [] T = "CapsRequest" -> match_payload(p, "Request", "AuthorizedInfo", "none")
      [] T = "PermissionRequest" -> match_payload(p, "Request", "Permission", "none")
      [] T = "PermissionResponse" -> match_payload(p, "Response", "Permission", "none")
      [] T = "AdvertisingRequest" -> match_payload(p, "Request", "Advertising", "none")
      [] T = "AdvertisingResponse" -> match_payload(p, "Response", "Advertising", "none")
      [] OTHER -> None

\* <T as ExtnPayloadProvider>::get_from_payload(p)
get_from_payload(T, p) ==
    CASE T = "DeviceInfoRequest" -> match_payload(p, "Request", "Device", "DeviceInfo")
      [] T = "WifiRequest" -> match_payload(p, "Request", "Device", "Wifi")
      [] T = "BrowserRequest" -> match_payload(p, "Request", "Device", "Browser")
      [] T = "CapsRequest" -> match_payload(p, "Request", "AuthorizedInfo", "none")
      [] T = "PermissionRequest" -> match_payload(p, "Request", "Permission", "none")
      [] T = "PermissionResponse" -> match_payload(p, "Response", "Permission", "none")
      [] T = "AdvertisingRequest" -> match_payload(p, "Request", "Advertising", "none")
      [] T = "AdvertisingResponse" -> match_payload(p, "Response", "Advertising", "none")
      [] OTHER ->
            IF p.kind = "Response" /\ p.variant = "Value" /\ from_json(p.body).ok
            THEN Some(from_json(p.body).value)
            ELSE None

\* Payloads that none of the providers above builds
ForeignPayloads ==
    {ExtnPayload("Event", "String", "none", Val("String", "event")),
     ExtnPayload("Request", "Config", "none", Val("PlatformParameters", "")),
     ExtnPayload("Request", "Device", "Accessory", Val("List", "")),
     ExtnPayload("Response", "None", "none", Val("Unit", "")),
     ExtnPayload("Response", "String", "none", Val("String", "text"))}

NoCodec == [pc |-> "empty", provider |-> "none", value |-> NoVal,
            payload |-> ExtnPayload("none", "none", "none", NoVal),
            reader |-> "none", decoded |-> None]

\* x.get_extn_payload() for a value x of provider type T
Encode(T, x) ==
    /\ codec.pc = "empty"
    /\ codec' = [NoCodec EXCEPT !.pc = "encoded", !.provider = T, !.value = x,
                                !.payload = get_extn_payload(T, x)]
    /\ UNCHANGED <<lvars, dvars, rvars, pvars, bvars, tvars, evars, avars>>

\* A payload built by something else arrives
Receive(p) ==
    /\ codec.pc = "empty"
    /\ codec' = [NoCodec EXCEPT !.pc = "encoded", !.payload = p]
    /\ UNCHANGED <<lvars, dvars, rvars, pvars, bvars, tvars, evars, avars>>

\* U::get_from_payload(payload) by a reader of provider type U
Decode(U) ==
    /\ codec.pc = "encoded"
    /\ codec' = [codec EXCEPT !.pc = "decoded", !.reader = U,
                              !.decoded = get_from_payload(U, codec.payload)]
    /\ UNCHANGED <<lvars, dvars, rvars, pvars, bvars, tvars, evars, avars>>

\* The payload is consumed
Consume ==
    /\ codec.pc = "decoded"
    /\ codec' = NoCodec
    /\ UNCHANGED <<lvars, dvars, rvars, pvars, bvars, tvars, evars, avars>>

NextPayload ==
    \/ \E T \in Providers : \E x \in Values(T) : Encode(T, x)
    \/ \E p \in ForeignPayloads : Receive(p)
    \/ \E U \in Providers : Decode(U)
    \/ Consume

----------------------------------------------------------------------------
(* LocalizationImpl::timezone_set                                          *)

Timezones == {"America/New_York", "Europe/London", "Asia/Tokyo"}

\* The values a caller may ask for: a timezone, or a string that is none
RequestedTimezones == Timezones \cup {"Mars/Olympus"}

\* What send_extn_request(GetAvailableTimezones) may come back with: an
\* error, a response that is not ExtnResponse::AvailableTimezones, or a list
ListResponses ==
    {[kind |-> "Err", timezones |-> {}], [kind |-> "Other", timezones |-> {}]}
    \cup [kind : {"AvailableTimezones"}, timezones : SUBSET Timezones]

NoTimezoneCall == [pc |-> "idle", app |-> "none", value |-> "none",
                   requests |-> <<>>,
                   resp |-> [kind |-> "none", timezones |-> {}],
                   listening |-> {}, result |-> "none"]

contains_anything(timezones, value) == TRUE

\* timezones.contains(&set_request.value)
contains(timezones, value) == value \in timezones

\* timezone_set(ctx, set_request): GetAvailableTimezones is sent
TimezoneSet(app, value) ==
    /\ tz.pc = "idle"
    /\ tz' = [NoTimezoneCall EXCEPT
                 !.pc = "awaiting_list", !.app = app, !.value = value,
                 !.requests = <<Val("GetAvailableTimezones", "")>>]
    /\ UNCHANGED <<lvars, dvars, rvars, pvars, bvars, xvars, evars, avars>>

\* The answer to GetAvailableTimezones: an error, a payload that is not a
\* list, or a list without the value returns Err; otherwise SetTimezone is sent
AvailableTimezones(resp) ==
    /\ tz.pc = "awaiting_list"
    /\ IF resp.kind = "AvailableTimezones" /\ contains(resp.timezones, tz.value)
       THEN tz' = [tz EXCEPT !.pc = "awaiting_set", !.resp = resp,
                             !.requests = Append(@, Val("SetTimezone", tz.value))]
       ELSE tz' = [tz EXCEPT !.pc = "returned", !.resp = resp,
                             !.result = "Err"]
    /\ UNCHANGED <<lvars, dvars, rvars, pvars, bvars, xvars, evars, avars>>

\* The answer to SetTimezone: on Ok the caller is subscribed to the timezone
\* changed event and the call returns Ok(()), on Err it returns Err
SetTimezoneDone(ok) ==
    /\ tz.pc = "awaiting_set"
    /\ IF ok
       THEN tz' = [tz EXCEPT !.pc = "returned", !.result = "Ok",
                             !.listening = @ \cup {tz.app}]
       ELSE tz' = [tz EXCEPT !.pc = "returned", !.result = "Err"]
    /\ UNCHANGED <<lvars, dvars, rvars, pvars, bvars, xvars, evars, avars>>

\* The call is over
TimezoneSetOver ==
    /\ tz.pc = "returned"
    /\ tz' = NoTimezoneCall
    /\ UNCHANGED <<lvars, dvars, rvars, pvars, bvars, xvars, evars, avars>>

NextTimezone ==
    \/ \E app \in Apps, value \in RequestedTimezones : TimezoneSet(app, value)
    \/ \E resp \in ListResponses : AvailableTimezones(resp)
    \/ \E ok \in BOOLEAN : SetTimezoneDone(ok)
    \/ TimezoneSetOver

----------------------------------------------------------------------------
(* ThunderEventMessage::get and ThunderEventHandler::process               *)

\* The DeviceEvent variants, by the event ids DeviceEvent::from_str reads,
\* and an id it does not read
DeviceEvents == {"InputChanged", "HdrChanged", "ScreenResolutionChanged",
                 "VideoResolutionChanged", "NetworkChanged",
                 "SystemPowerStateChanged", "VoiceGuidanceChanged",
                 "AudioChanged"}
EventIds == DeviceEvents \cup {"unknown.event"}

JsonKeys == {"activeInput", "width", "height", "video_display_type",
             "resolution", "interface", "status", "powerState",
             "currentPowerState", "state"}

\* A JSON object with string, boolean ("true", "false") and number members;
\* "" stands for a member that is absent
Json(members) ==
    [k \in JsonKeys |-> IF k \in DOMAIN members THEN members[k] ELSE ""]

RawValues ==
    {Json([activeInput |-> "true"]),
     Json([activeInput |-> "false"]),
     Json([width |-> "1920", height |-> "1080", video_display_type |-> "hdmi",
           resolution |-> "1080p"]),
     Json([width |-> "1920", height |-> "1080"]),
     Json([interface |-> "WIFI", status |-> "CONNECTED"]),
     Json([interface |-> "WIFI", status |-> "pending"]),
     Json([powerState |-> "ON", currentPowerState |-> "STANDBY"]),
     Json([powerState |-> "ON"]),
     Json([state |-> "true"])}

JsonBooleans == {"true", "false"}
JsonNumbers == {"1920", "1080"}
NetworkTypes == {"WIFI", "ETHERNET"}
NetworkStates == {"CONNECTED", "DISCONNECTED"}
PowerStates == {"ON", "STANDBY"}

NoMessage == [variant |-> "none", content |-> Json(<<>>)]

\* ThunderEventMessage::get(event, value): None for an event id that is no
\* DeviceEvent and for a value that does not decode as the event's message
get(event, value) ==
    CASE event \in {"InputChanged", "HdrChanged"} ->
            IF value["activeInput"] \in JsonBooleans
            THEN [some |-> TRUE,
                  value |-> [variant |-> "ActiveInput",
                             content |-> Json([activeInput |-> value["activeInput"]])]]
            ELSE [some |-> FALSE, value |-> NoMessage]
      [] event \in {"ScreenResolutionChanged", "VideoResolutionChanged"} ->
            IF /\ value["width"] \in JsonNumbers
               /\ value["height"] \in JsonNumbers
               /\ value["video_display_type"] # ""
               /\ value["resolution"] # ""
            THEN [some |-> TRUE,
                  value |-> [variant |-> "Resolution",
                             content |-> Json([width |-> value["width"],
                                 height |-> value["height"],
                                 video_display_type |-> value["video_display_type"],
                                 resolution |-> value["resolution"]])]]
            ELSE [some |-> FALSE, value |-> NoMessage]
      [] event = "NetworkChanged" ->
            IF value["interface"] \in NetworkTypes /\ value["status"] \in NetworkStates
            THEN [some |-> TRUE,
                  value |-> [variant |-> "Network",
                             content |-> Json([interface |-> value["interface"],
                                               status |-> value["status"]])]]
            ELSE [some |-> FALSE, value |-> NoMessage]
      [] event = "SystemPowerStateChanged" ->
            IF /\ value["powerState"] \in PowerStates
               /\ value["currentPowerState"] \in PowerStates
            THEN [some |-> TRUE,
                  value |-> [variant |-> "PowerState",
                             content |-> Json([powerState |-> value["powerState"],
                                 currentPowerState |-> value["currentPowerState"]])]]
            ELSE [some |-> FALSE, value |-> NoMessage]
      [] event = "VoiceGuidanceChanged" ->
            IF value["state"] \in JsonBooleans
            THEN [some |-> TRUE,
                  value |-> [variant |-> "VoiceGuidance",
                             content |-> Json([state |-> value["state"]])]]
            ELSE [some |-> FALSE, value |-> NoMessage]
      [] event = "AudioChanged" ->
            [some |-> TRUE, value |-> [variant |-> "Audio", content |-> value]]
      [] OTHER -> [some |-> FALSE, value |-> NoMessage]

\* The validity predicates a handler may carry in is_valid
Predicates == {"accept_all", "reject_all", "active_input_only"}

\* (self.is_valid)(event_message)
is_valid(predicate, message) ==
    CASE predicate = "accept_all" -> TRUE
      [] predicate = "reject_all" -> FALSE
      [] OTHER -> message.variant = "ActiveInput" /\
                  message.content["activeInput"] = "true"

dispatches_unchecked(predicate, event_id, value) == get(event_id, value).some

\* The two conditions of process: the message decodes and is_valid accepts it
dispatches(predicate, event_id, value) ==
    /\ get(event_id, value).some
    /\ is_valid(predicate, get(event_id, value).value)

NoProcess == [predicate |-> "none", event_id |-> "none", value |-> Json(<<>>),
              dispatched |-> FALSE, handled |-> NoMessage]

\* handler.process(state, event_id, value, callback_type) of a handler whose
\* is_valid is `predicate`: handle is called with the decoded message, or
\* nothing happens
process(predicate, event_id, value) ==
    /\ proc' = [predicate |-> predicate, event_id |-> event_id, value |-> value,
                dispatched |-> dispatches(predicate, event_id, value),
                handled |-> IF dispatches(predicate, event_id, value)
                            THEN get(event_id, value).value
                            ELSE proc.handled]
    /\ UNCHANGED <<lvars, dvars, rvars, pvars, bvars, xvars, tvars, avars>>

NextProcess ==
    \E predicate \in Predicates, event_id \in EventIds, value \in RawValues :
        process(predicate, event_id, value)

----------------------------------------------------------------------------
(* AppLibraryState and AppLibrary: the provider map                        *)

AppIds == {"app1", "app2"}
AllCapabilities == <<"xrn:firebolt:capability:keyboard",
                     "xrn:firebolt:capability:acknowledgechallenge">>
Capabilities == Range(AllCapabilities)

\* What a Vec<String> of capabilities in a manifest may hold: nothing, one
\* capability, or all of them
CapabilityLists ==
    {<<>>, AllCapabilities} \cup {<<c>> : c \in Capabilities}

\* AppManifestLoad: Remote(url) and Local(path) carry no manifest, Embedded
\* carries one, of which only capabilities.provided is read here
AppManifestLoads ==
    [kind : {"Embedded"}, required : CapabilityLists, optional : CapabilityLists]
    \cup [kind : {"Remote", "Local"}, required : {<<>>}, optional : {<<>>}]

AppLibraryEntries == [app_id : AppIds, manifest : AppManifestLoads]

\* The libraries AppLibraryState::new is called with: up to MaxLibrary
\* entries in list order, app ids free to repeat
Libraries ==
    UNION {[1..n -> AppLibraryEntries] : n \in 0..MaxLibrary}

\* The absent value of an Option<String> / a key the HashMap does not hold
NoProvider == "None"

insert_if_absent(map, capability, app_id) ==
    IF map[capability] = NoProvider
    THEN [map EXCEPT ![capability] = app_id]
    ELSE map

\* HashMap::insert(capability, app_id): a key already held is overwritten
insert(map, capability, app_id) == [map EXCEPT ![capability] = app_id]

\* `for capability in ... .iter() { map.insert(capability.clone(),
\* app.app_id.clone()); }` over one list of a manifest
RECURSIVE insert_all(_, _, _)
insert_all(map, capabilities, app_id) ==
    IF capabilities = <<>>
    THEN map
    ELSE insert_all(insert(map, Head(capabilities), app_id),
                    Tail(capabilities), app_id)

\* The body of the loop over apps: an embedded manifest inserts its required
\* and then its optional provided capabilities, any other is only logged
provide_from(map, app) ==
    IF app.manifest.kind = "Embedded"
    THEN insert_all(insert_all(map, app.manifest.required, app.app_id),
                    app.manifest.optional, app.app_id)
    ELSE map

\* AppLibrary::generate_provider_map(apps), from `map` onwards
RECURSIVE generate_from(_, _)
generate_from(map, apps) ==
    IF apps = <<>>
    THEN map
    ELSE generate_from(provide_from(map, Head(apps)), Tail(apps))

\* AppLibrary::generate_provider_map
generate_provider_map(apps) ==
    generate_from([c \in Capabilities |-> NoProvider], apps)

NoLibrary == [pc |-> "none", default_apps |-> <<>>,
              providers |-> [c \in Capabilities |-> NoProvider],
              capability |-> "none", provider |-> NoProvider]

\* AppLibraryState::new(default_apps), for any library
AppLibraryStateNew ==
    /\ lib.pc = "none"
    /\ \E default_apps \in Libraries :
           lib' = [NoLibrary EXCEPT
                      !.pc = "built",
                      !.default_apps = default_apps,
                      !.providers = generate_provider_map(default_apps)]
    /\ UNCHANGED <<lvars, dvars, rvars, pvars, bvars, xvars, tvars, evars>>

\* AppLibrary::get_provider(state, capability)
get_provider(capability) ==
    /\ lib.pc = "built"
    /\ lib' = [lib EXCEPT !.capability = capability,
                          !.provider = lib.providers[capability]]
    /\ UNCHANGED <<lvars, dvars, rvars, pvars, bvars, xvars, tvars, evars>>

\* The state is dropped; another library is loaded.
AppLibraryStateDrop ==
    /\ lib.pc = "built"
    /\ lib' = NoLibrary
    /\ UNCHANGED <<lvars, dvars, rvars, pvars, bvars, xvars, tvars, evars>>

NextLibrary ==
    \/ AppLibraryStateNew
    \/ \E capability \in Capabilities : get_provider(capability)
    \/ AppLibraryStateDrop

----------------------------------------------------------------------------
vars == <<event_map, event_map_lock, lpc, lcall, lret, ops, last_event, emissions,
          dcall,
          methods, methods_poisoned, totals, task, generation, latest,
          extn_panicked, pool, boot, codec, tz, proc, lib>>

Init ==
    /\ event_map = [e \in Events |-> NoHandler]
    /\ event_map_lock = "free"
    /\ lpc = [t \in Threads |-> "idle"]
    /\ lcall = [t \in Threads |-> NoCall]
    /\ lret = [t \in Threads |-> FALSE]
    /\ ops = [a \in Apps |-> [e \in Events |-> "none"]]
    /\ last_event = [e \in Events |-> NoValue]
    /\ emissions = <<>>
    /\ dcall = [t \in Threads |-> NoEmission]
    /\ methods = [m \in MethodNames |-> NoMethod]
    /\ methods_poisoned = FALSE
    /\ totals = 0
    /\ task = [t \in Tasks |-> IdleTask]
    /\ generation = 0
    /\ latest = [m \in MethodNames |-> 0]
    /\ extn_panicked = FALSE
    /\ pool = NoSetup
    /\ boot = NoBoot
    /\ codec = NoCodec
    /\ tz = NoTimezoneCall
    /\ proc = NoProcess
    /\ lib = NoLibrary

SpecListeners == Init /\ [][NextListeners]_vars
SpecDedup == Init /\ [][NextDedup]_vars
SpecEmitters == Init /\ [][NextEmitters]_vars
SpecRouter == Init /\ [][NextRouter]_vars
SpecRegistry == Init /\ [][NextRegistry]_vars
SpecReply == Init /\ [][NextReply]_vars
SpecPool == Init /\ [][NextPool]_vars
SpecBoot == Init /\ [][NextBoot]_vars
SpecPayload == Init /\ [][NextPayload]_vars
SpecTimezone == Init /\ [][NextTimezone]_vars
SpecProcess == Init /\ [][NextProcess]_vars
SpecLibrary == Init /\ [][NextLibrary]_vars

----------------------------------------------------------------------------
(* Properties of the listener registry (checked under SpecListeners)       *)

\* The step in which thread t runs the body of its handle_listener call and returns.
Returns(t) == lpc[t] = "locked" /\ lpc'[t] = "idle"

Count(listeners, id) == Cardinality({i \in 1..Len(listeners) : listeners[i] = id})

\* C3: once handle_listener(listen = true, app_id, handler) has returned, and
\* until the same app unlistens, a handler is stored for handler.id and app_id
\* is in its listener set, whether this call created the handler or found it.
C3_ListenAddsApp ==
    \A a \in Apps, e \in Events :
        ops[a][e] = "listening" =>
            /\ event_map[e] # NoHandler
            /\ a \in Range(event_map[e].listeners)

\* Two apps listen on one event: one call created the handler, one found it.
C3_Witness ==
    \E e \in Events :
        /\ \A a \in Apps : ops[a][e] = "listening"
        /\ \A t \in Threads : lpc[t] = "idle"
        /\ Len(event_map[e].listeners) = 2

\* C4: handle_listener(listen = true, ..) returns true exactly when no handler
\* was stored for the event id before the call.
C4_ListenReturnsTrueIffNew ==
    [][\A t \in Threads :
          (Returns(t) /\ lcall[t].listen) =>
              (lret'[t] = (event_map[lcall[t].id] = NoHandler))]_vars

\* One listen call on an event returned true, another on the same event false.
C4_Witness ==
    \E t1, t2 \in Threads :
        /\ t1 # t2
        /\ lpc[t1] = "idle" /\ lpc[t2] = "idle"
        /\ lcall[t1].listen /\ lcall[t2].listen
        /\ lcall[t1].id = lcall[t2].id
        /\ lret[t1] = TRUE /\ lret[t2] = FALSE

\* C5: handle_listener(listen = false, app_id, handler) on a stored handler
\* removes app_id from its listener set; if no listener is left the handler is
\* deleted and the call returns true, otherwise the handler is kept with the
\* other listeners and the call returns false.
C5_UnlistenRemovesApp ==
    [][\A t \in Threads :
          (Returns(t) /\ ~lcall[t].listen /\ event_map[lcall[t].id] # NoHandler) =>
              LET e == lcall[t].id
                  others == Range(event_map[e].listeners) \ {lcall[t].app_id}
              IN  IF others = {}
                  THEN event_map'[e] = NoHandler /\ lret'[t] = TRUE
                  ELSE /\ event_map'[e] # NoHandler
                       /\ Range(event_map'[e].listeners) = others
                       /\ lret'[t] = FALSE]_vars

\* Both outcomes on one event: appA's unlisten left appB (false), appB's
\* unlisten emptied the set and deleted the handler (true).
C5_Witness ==
    \E e \in Events, t1, t2 \in Threads :
        /\ t1 # t2
        /\ lpc[t1] = "idle" /\ lpc[t2] = "idle"
        /\ lcall[t1] = [listen |-> FALSE, app_id |-> "appA", id |-> e]
        /\ lcall[t2] = [listen |-> FALSE, app_id |-> "appB", id |-> e]
        /\ lret[t1] = FALSE /\ lret[t2] = TRUE
        /\ \A a \in Apps : ops[a][e] = "collapsed"
        /\ event_map[e] = NoHandler

\* C6: listener add is idempotent: however often an app listens on an event,
\* the handler's listener set holds one entry for it.
C6_AddIdempotent ==
    \A e \in Events, a \in Apps : Count(event_map[e].listeners, a) <= 1

\* C7: a remove that follows a remove by the same app on the same event is a
\* no-op: it leaves the event map as it is and returns false (no further
\* platform-level change).
C7_SecondRemoveIsNoOp ==
    [][\A t \in Threads :
          (/\ Returns(t)
           /\ ~lcall[t].listen
           /\ ops[lcall[t].app_id][lcall[t].id] \in {"collapsed", "unlistened"}) =>
              (event_map' = event_map /\ lret'[t] = FALSE)]_vars

\* C8: at most one thread is inside add/remove (it holds the write guard), and
\* whatever other apps do in between, an app whose listen was followed by its
\* unlisten on an event is not in that event's listener set.
C8_ListenThenUnlistenCollapses ==
    /\ Cardinality({t \in Threads : lpc[t] = "locked"}) <= 1
    /\ \A t \in Threads : lpc[t] = "locked" <=> event_map_lock = t
    /\ \A a \in Apps, e \in Events :
           ops[a][e] = "collapsed" => a \notin Range(event_map[e].listeners)

\* appA listened and unlistened while appB is listening on the same event.
C8_Witness ==
    \E e \in Events :
        /\ ops["appA"][e] = "collapsed"
        /\ ops["appB"][e] = "listening"
        /\ event_map[e] = [id |-> e, listeners |-> <<"appB">>]

----------------------------------------------------------------------------
(* Properties of the de-duplication (checked under SpecDedup)              *)

\* The emissions of one event name, in order.
Stream(n) == SelectSeq(emissions, LAMBDA r : r.event_name = n)

\* C1: of two consecutive emissions for one event name with identical encoded
\* payloads (the first of them starting the run of repeats), the first is
\* forwarded and the second is dropped.
C1_ConsecutiveDuplicateForwardedOnce ==
    \A n \in Events :
        LET s == Stream(n)
        IN  \A i \in 1..(Len(s) - 1) :
                (/\ to_value(s[i].event) = to_value(s[i + 1].event)
                 /\ Forwardable(s[i].event)
                 /\ (i = 1 \/ to_value(s[i - 1].event) # to_value(s[i].event)))
                    => (s[i].forwarded /\ ~s[i + 1].forwarded)

\* C2: for the emissions P, Q, P on one event name with P different from Q,
\* all three are forwarded.
C2_RepeatAfterChangeForwarded ==
    \A n \in Events :
        LET s == Stream(n)
        IN  \A i \in 1..(Len(s) - 2) :
                (/\ to_value(s[i].event) = to_value(s[i + 2].event)
                 /\ to_value(s[i].event) # to_value(s[i + 1].event)
                 /\ \A k \in i..(i + 2) : Forwardable(s[k].event))
                    => \A k \in i..(i + 2) : s[k].forwarded

----------------------------------------------------------------------------
(* Properties of the dispatch (checked under SpecRouter)                   *)

\* C9: a dispatch whose method is absent from its snapshot of the method table
\* invokes no handler and produces the MethodNotFound (-32601) error frame
\* carrying the request's call_id, which is the frame delivered.
C9_AbsentMethodNotFound ==
    \A t \in Tasks :
        (task[t].pc \in {"joined", "done"} /\ Resolved(t) = NoMethod) =>
            /\ ~task[t].invoked
            /\ task[t].pc = "joined" =>
                   task[t].sink = <<[id |-> CallId(t), kind |-> "error",
                                     code |-> MethodNotFound]>>
            /\ task[t].pc = "done" =>
                   task[t].out = [id |-> CallId(t), kind |-> "error",
                                  code |-> MethodNotFound]

\* Two dispatches of absent methods were answered, each with its own call_id;
\* one of the methods has been registered since the snapshot was taken.
C9_Witness ==
    /\ \A t \in Tasks :
           /\ task[t].pc = "done"
           /\ Resolved(t) = NoMethod
           /\ task[t].out.id = CallId(t)
    /\ \E t \in Tasks : methods[task[t].req.method] # NoMethod

\* C10: when resolve_route finds a sync or async method whose units do not fit
\* under the capacity next to what is claimed, it invokes no handler, claims
\* nothing and leaves the MethodNotFound error frame for the request's call_id
\* in the sink; and the frame a dispatch delivers is the first one of its sink.
C10_RefusedClaimMethodNotFound ==
    [][\A t \in Tasks :
          /\ (/\ task[t].pc = "spawned"
              /\ task'[t].pc # "spawned"
              /\ Resolved(t).kind \in {"Sync", "Async"}
              /\ totals + Resolved(t).units > ResourceCap) =>
                 /\ task'[t].pc = "joined"
                 /\ ~task'[t].invoked
                 /\ totals' = totals
                 /\ task'[t].sink = <<[id |-> CallId(t), kind |-> "error",
                                       code |-> MethodNotFound]>>
          /\ (task[t].pc = "joined" /\ task'[t].pc = "done") =>
                 task'[t].out = Head(task[t].sink)]_vars

\* A dispatch of a sync or async method was refused while another dispatch
\* held the resource, and the refusal was delivered as MethodNotFound.
C10_Witness ==
    \E t \in Tasks, u \in Tasks :
        /\ task[t].pc = "done"
        /\ Resolved(t).kind \in {"Sync", "Async"}
        /\ ~task[t].invoked
        /\ task[t].out = [id |-> CallId(t), kind |-> "error", code |-> MethodNotFound]
        /\ task[u].pc = "awaiting"
        /\ task[u].guard = ResourceCap

----------------------------------------------------------------------------
(* Properties of the reply path (checked under SpecReply)                  *)

\* The step in which task t takes a frame from its sink and delivers it
Delivers(t) == task[t].pc = "joined" /\ task'[t].pc = "done"

\* C11: for every routed request at most one response is delivered: the step
\* that ends the wait on the sink delivers exactly one message, which carries
\* the request's protocol and request_id and (on a session) the first frame
\* written to the sink; no other step delivers anything, so a further frame
\* of the handler is never delivered.
C11_ExactlyOneFrameDelivered ==
    [][\A t \in Tasks :
          /\ Delivers(t) =>
                 /\ Len(task'[t].sent) = 1
                 /\ task'[t].sent[1].msg.protocol = task[t].req.protocol
                 /\ task'[t].sent[1].msg.request_id = task[t].req.request_id
                 /\ task[t].req.origin \in Sessions =>
                        task'[t].sent[1].msg.jsonrpc_msg = Head(task[t].sink)
          /\ ~Delivers(t) =>
                 \/ task'[t].sent = task[t].sent
                 \/ task'[t].sent = <<>>]_vars

\* A handler wrote two frames; the first was delivered to the bridge session
\* the request came from and the second is left in the sink.
C11_Witness ==
    \E t \in Tasks :
        /\ task[t].pc = "done"
        /\ task[t].invoked
        /\ task[t].req.origin = "bridge-session-2"
        /\ Len(task[t].sent) = 1
        /\ task[t].sent[1].msg.jsonrpc_msg.kind = "result"
        /\ task[t].sent[1].msg.request_id = RequestId(t)
        /\ Len(task[t].sink) = 1

\* C12: the response of a request routed for a session goes to that session's
\* transport only: to the session itself when its transport is Websocket, to
\* the session's own container_id when it is Bridge(container_id).
C12_DeliveredToOriginatingSession ==
    \A t \in Tasks :
        task[t].req.origin \in Sessions =>
            \A i \in DOMAIN task[t].sent :
                LET to == task[t].sent[i].to
                    origin == task[t].req.origin
                IN  /\ origin = "ws-session" =>
                           to.kind = "Websocket" /\ to.session = "ws-session"
                    /\ origin = "ws-session-2" =>
                           to.kind = "Websocket" /\ to.session = "ws-session-2"
                    /\ origin = "bridge-session" =>
                           to.kind = "Bridge" /\ to.container_id = "container-1"
                    /\ origin = "bridge-session-2" =>
                           to.kind = "Bridge" /\ to.container_id = "container-2"

\* A response went to the container of the second bridge session.
C12_Witness ==
    \E t \in Tasks :
        /\ task[t].pc = "done"
        /\ task[t].req.origin = "bridge-session-2"
        /\ task[t].sent = << [to |-> [kind |-> "Bridge", session |-> "none",
                                      container_id |-> "container-2"],
                              msg |-> ApiMessage(task[t].req, task[t].out)] >>

\* C17: a request routed by route_extn_protocol is answered on the callback
\* of its extn message and on no session transport; the value sent is the
\* result of the frame when it has one, else its error object (the
\* MethodNotFound error of the router included).
C17_ExtnRepliesOnCallback ==
    [][\A t \in Tasks :
          (Delivers(t) /\ task[t].req.origin = "extn") =>
              LET frame == Head(task[t].sink)
              IN  /\ Len(task'[t].sent) = 1
                  /\ task'[t].sent[1].to.kind = "Callback"
                  /\ frame.kind \in {"result", "error"} =>
                         task'[t].sent[1].msg.jsonrpc_msg =
                             [kind |-> frame.kind, code |-> frame.code]]_vars

\* The MethodNotFound error object of an extn request was sent on its callback.
C17_Witness ==
    \E t \in Tasks :
        /\ task[t].pc = "done"
        /\ task[t].req.origin = "extn"
        /\ ~task[t].invoked
        /\ Len(task[t].sent) = 1
        /\ task[t].sent[1].to.kind = "Callback"
        /\ task[t].sent[1].msg.jsonrpc_msg =
               [kind |-> "error", code |-> MethodNotFound]

\* C18: an extn request whose dispatch is past its handler always gets a
\* reply on the callback: the reply step can be taken whatever the sink
\* holds, and when the frame taken had neither result nor error (or there was
\* none) the value sent is InvalidOutput.
C18_ExtnAlwaysReplied ==
    \A t \in Tasks :
        task[t].req.origin = "extn" =>
            /\ task[t].pc = "joined" => task[t].sink # <<>>
            /\ (task[t].pc = "done" /\ task[t].out.kind \notin {"result", "error"}) =>
                   /\ Len(task[t].sent) = 1
                   /\ task[t].sent[1].msg.jsonrpc_msg.kind = "InvalidOutput"

\* C19: a request that reaches route_extn_protocol without a callback is
\* dropped: the call returns to its caller, which goes on serving requests;
\* it never unwinds on a panic.
C19_NoCallbackDropped == ~extn_panicked

----------------------------------------------------------------------------
(* Properties of the method table (checked under SpecRegistry)             *)

\* C13: a dispatch of m that starts after update_methods was called with a
\* method set containing m resolves to the entry that call brought, or to no
\* entry (MethodNotFound); never to the entry of an older call.
C13_DispatchUsesLatestRegistration ==
    [][\A t \in Tasks :
          (task[t].pc = "idle" /\ task'[t].pc = "spawned") =>
              \/ Resolved(t)' = NoMethod
              \/ Resolved(t)'.handler = latest[task'[t].req.method]]_vars

----------------------------------------------------------------------------
(* Properties of snapshots and claims (checked under SpecRouter)           *)

\* C14: resolve_route acts on the entry the snapshot holds for the method,
\* whatever update_methods did to the table since: no entry in the snapshot
\* gives MethodNotFound and no handler, a sync or async entry whose units fit
\* starts its handler with its units claimed; and the snapshot of a dispatch
\* under way never changes.
C14_ResolvesAgainstSnapshot ==
    [][\A t \in Tasks :
          /\ (task[t].pc = "spawned" /\ task'[t].pc # "spawned") =>
                 LET e == task[t].snapshot[task[t].req.method]
                 IN  /\ e = NoMethod =>
                            /\ task'[t].pc = "joined"
                            /\ task'[t].sink =
                                   <<[id |-> CallId(t), kind |-> "error",
                                      code |-> MethodNotFound]>>
                     /\ (e.kind = "Sync" /\ totals + e.units <= ResourceCap) =>
                            task'[t].pc = "running" /\ task'[t].guard = e.units
                     /\ (e.kind = "Async" /\ totals + e.units <= ResourceCap) =>
                            task'[t].pc = "awaiting" /\ task'[t].guard = e.units
                     /\ task'[t].pc \in {"running", "awaiting"} =>
                            e.kind \in {"Sync", "Async"}
          /\ (task[t].pc # "idle" /\ task'[t].pc # "idle") =>
                 task'[t].snapshot = task[t].snapshot]_vars

\* A dispatch answered MethodNotFound from its snapshot although the method
\* had been registered, as one that fits, by the time it resolved.
C14_Witness ==
    \E t \in Tasks :
        /\ task[t].pc = "joined"
        /\ task[t].snapshot[task[t].req.method] = NoMethod
        /\ methods[task[t].req.method].kind \in {"Sync", "Async"}
        /\ methods[task[t].req.method].units = 0
        /\ ~task[t].invoked
        /\ task[t].sink = <<send_error(CallId(t), MethodNotFound)>>

RECURSIVE GuardsHeld(_)
\* The units held by the guards of the tasks in S
GuardsHeld(S) ==
    IF S = {} THEN 0
    ELSE LET t == CHOOSE x \in S : TRUE
         IN  task[t].guard + GuardsHeld(S \ {t})

\* C16: the claimed amount of the resource is the sum of the guards held, a
\* guard is held only from the claim to the end of the handler (sync or
\* async, whatever the handler wrote), and with no handler under way the
\* claimed amount is what it was before any dispatch.
C16_ClaimsReleasedOnEveryPath ==
    /\ totals = GuardsHeld(Tasks)
    /\ \A t \in Tasks :
           task[t].guard # 0 => task[t].pc \in {"running", "awaiting"}
    /\ (\A t \in Tasks : task[t].pc \notin {"running", "awaiting"}) => totals = 0

\* A sync and an async handler that each claimed the whole resource have
\* finished, one with a result and one with an error, and nothing is claimed.
C16_Witness ==
    \E t \in Tasks, u \in Tasks :
        /\ task[t].pc = "done" /\ task[u].pc = "done"
        /\ task[t].invoked /\ task[u].invoked
        /\ Resolved(t).kind = "Sync" /\ Resolved(u).kind = "Async"
        /\ Resolved(t).units = ResourceCap /\ Resolved(u).units = ResourceCap
        /\ task[t].out.kind = "result" /\ task[u].out.kind = "error"
        /\ totals = 0

----------------------------------------------------------------------------
(* Properties of ThunderPoolStep::setup (checked under SpecPool)           *)

\* C20: an invocation of setup with a pool_size below 2 has returned
\* BootstrapError, has made no ThunderClientPool::start call (no connection
\* was opened) and has not started the plugin manager.
C20_PoolSizeBelowTwoRefused ==
    (pool.pc # "idle" /\ pool.pool_size < 2) =>
        /\ pool.pc = "returned"
        /\ pool.result = "BootstrapError"
        /\ pool.starts = <<>>
        /\ ~pool.plugin_manager.started

\* setup was called with a pool size of 1 and with plugins to expect, and has
\* returned BootstrapError.
C20_Witness ==
    /\ pool.pc = "returned"
    /\ pool.pool_size = 1
    /\ pool.plugin_param # {}
    /\ pool.result = "BootstrapError"
    /\ pool.starts = <<>>

\* The ThunderClientPool::start calls made so far for `role`
StartsOf(role) ==
    {i \in DOMAIN pool.starts : pool.starts[i].role = role}

\* C21: when the ThunderClientPool::start call for the controller connection
\* has failed, setup has returned BootstrapError, the plugin manager is not
\* started and no start call was made for the request pool.
C21_ControllerFailureAborts ==
    (\E i \in StartsOf("controller") : pool.starts[i].outcome # "Ok") =>
        /\ pool.pc = "returned"
        /\ pool.result = "BootstrapError"
        /\ ~pool.plugin_manager.started
        /\ StartsOf("request") = {}

\* The controller connection of a pool of 3 with plugins to expect failed to
\* open, and setup has returned.
C21_Witness ==
    /\ pool.pc = "returned"
    /\ pool.pool_size = 3
    /\ pool.plugin_param # {}
    /\ Len(pool.starts) = 1
    /\ pool.starts[1].role = "controller"
    /\ pool.starts[1].outcome = "BootstrapError"

\* C22: when the ThunderClientPool::start call for the request pool has
\* failed after the controller connection opened, ExtnStatus::Error was sent
\* on the extn client, ExtnStatus::Ready was not, and setup has returned the
\* error of the call.
C22_RequestPoolFailureReported ==
    \A i \in StartsOf("request") :
        pool.starts[i].outcome # "Ok" =>
            /\ \E j \in StartsOf("controller") :
                   j < i /\ pool.starts[j].outcome = "Ok"
            /\ pool.events = <<"Error">>
            /\ pool.pc = "returned"
            /\ pool.result = pool.starts[i].outcome

\* The controller connection opened, the plugin manager was started, the
\* request pool failed to open and setup has returned after sending Error.
C22_Witness ==
    /\ pool.pc = "returned"
    /\ Len(pool.starts) = 2
    /\ pool.starts[1].outcome = "Ok"
    /\ pool.starts[2].role = "request"
    /\ pool.starts[2].outcome # "Ok"
    /\ pool.plugin_manager.started
    /\ pool.events = <<"Error">>

----------------------------------------------------------------------------
(* Properties of boot (checked under SpecBoot)                             *)

\* The names of the steps started so far, in the order they were started
StartedSteps ==
    LET idx == {i \in DOMAIN boot.log : boot.log[i][2] = "started"}
        F[i \in 0..Len(boot.log)] ==
            IF i = 0 THEN <<>>
            ELSE IF i \in idx THEN Append(F[i - 1], boot.log[i][1]) ELSE F[i - 1]
    IN  F[Len(boot.log)]

\* C23: the steps started are SetupExtnClientStep, StartWsStep and
\* FireboltGatewayStep in that order, none skipped and none repeated, and a
\* step is started only when the step before it is the last entry of the log
\* and has completed.
C23_StepsInFixedOrder ==
    /\ Len(StartedSteps) <= Len(BootSteps)
    /\ \A k \in DOMAIN StartedSteps : StartedSteps[k] = BootSteps[k]
    /\ \A i \in DOMAIN boot.log :
           (boot.log[i][2] = "started" /\ i > 1) =>
               /\ boot.log[i - 1][2] = "completed"
               /\ \E k \in 2..Len(BootSteps) :
                      /\ boot.log[i][1] = BootSteps[k]
                      /\ boot.log[i - 1][1] = BootSteps[k - 1]

\* All three steps were started and have completed.
C23_Witness ==
    /\ StartedSteps = BootSteps
    /\ Len(boot.log) = 6
    /\ boot.log[6] = <<"FireboltGatewayStep", "completed">>
    /\ boot.panic = "none"

\* C24: when a step has failed, boot has panicked with the message of that
\* step, the failed step is the last entry of the log (no later step was
\* started, the step was not run again), and boot takes no further step.
C24_FailFast ==
    [][/\ \A i \in DOMAIN boot.log :
              boot.log[i][2] = "failed" =>
                  /\ i = Len(boot.log)
                  /\ \E k \in DOMAIN BootSteps :
                         /\ boot.log[i][1] = BootSteps[k]
                         /\ boot.panic = ExpectMessages[k]
       /\ boot.panic # "none" => boot' = boot]_vars

\* StartWsStep failed with a Timeout after SetupExtnClientStep completed, and
\* boot panicked with the message of StartWsStep.
C24_Witness ==
    /\ boot.log = << <<"SetupExtnClientStep", "started">>,
                     <<"SetupExtnClientStep", "completed">>,
                     <<"StartWsStep", "started">>,
                     <<"StartWsStep", "failed">> >>
    /\ boot.err = "Timeout"
    /\ boot.panic = "Websocket startup failure"

----------------------------------------------------------------------------
(* Properties of the payload providers (checked under SpecPayload)         *)

\* The tag of a payload: its kind, its ExtnRequest/ExtnResponse variant and
\* its DeviceRequest variant
TagOf(p) == <<p.kind, p.variant, p.device>>

\* The tag of the payloads provider T builds
Tag(T) == TagOf(get_extn_payload(T, CHOOSE x \in Values(T) : TRUE))

\* C25: a payload built from a value x by a provider and read back by the
\* same provider gives Some(x).
C25_PayloadRoundTrip ==
    (codec.pc = "decoded" /\ codec.reader = codec.provider) =>
        codec.decoded = Some(codec.value)

\* A DeviceResponse went through its JSON value and came back.
C25_Witness ==
    /\ codec.pc = "decoded"
    /\ codec.reader = codec.provider
    /\ codec.provider = "DeviceResponse"
    /\ codec.value = Val("VideoResolutionResponse", "1920,1080")
    /\ codec.payload.body.variant = "json"
    /\ codec.decoded.some
    /\ codec.decoded.value = codec.value

\* C26: a provider reading a payload whose tag (kind, ExtnRequest or
\* ExtnResponse variant, DeviceRequest variant) is not its own gets None.
C26_ForeignPayloadIsNone ==
    (codec.pc = "decoded" /\ TagOf(codec.payload) # Tag(codec.reader)) =>
        codec.decoded = None

\* WifiRequest read a Browser request payload and got None.
C26_Witness ==
    /\ codec.pc = "decoded"
    /\ codec.reader = "WifiRequest"
    /\ codec.provider = "BrowserRequest"
    /\ TagOf(codec.payload) = <<"Request", "Device", "Browser">>
    /\ codec.decoded = None

----------------------------------------------------------------------------
(* Properties of timezone_set (checked under SpecTimezone)                 *)

\* C27: a SetTimezone request is issued only as the second request of the
\* call, after GetAvailableTimezones was answered with a list that holds the
\* requested value, and it carries that value; a call whose list request
\* failed, was answered with something else or with a list without the value
\* has returned an error and issued no SetTimezone.
C27_SetTimezoneOnlyForListedValue ==
    /\ \A i \in DOMAIN tz.requests :
           tz.requests[i].variant = "SetTimezone" =>
               /\ i = 2
               /\ tz.requests[1] = Val("GetAvailableTimezones", "")
               /\ tz.resp.kind = "AvailableTimezones"
               /\ tz.value \in tz.resp.timezones
               /\ tz.requests[i].arg = tz.value
    /\ (tz.resp.kind \in {"Err", "Other"} \/
        (tz.resp.kind = "AvailableTimezones" /\ tz.value \notin tz.resp.timezones)) =>
           /\ tz.pc = "returned"
           /\ tz.result = "Err"
           /\ Len(tz.requests) = 1

\* A call for a timezone that the returned list does not hold has returned
\* an error after its one request; the list was not empty.
C27_Witness ==
    /\ tz.pc = "returned"
    /\ tz.value = "Asia/Tokyo"
    /\ tz.resp = [kind |-> "AvailableTimezones",
                  timezones |-> {"America/New_York", "Europe/London"}]
    /\ tz.result = "Err"
    /\ tz.requests = <<Val("GetAvailableTimezones", "")>>

----------------------------------------------------------------------------
(* Properties of process (checked under SpecProcess)                       *)

\* C28: a process call invokes handle exactly when the payload decodes for
\* the event id and the handler's predicate accepts the decoded message, and
\* then handle receives that message; otherwise handle is not invoked and
\* what was handled before stays as it was.
C28_ProcessDispatchesValidDecoded ==
    [][LET decoded == get(proc'.event_id, proc'.value)
           accepted == decoded.some /\ is_valid(proc'.predicate, decoded.value)
       IN  /\ proc'.dispatched = accepted
           /\ accepted => proc'.handled = decoded.value
           /\ ~accepted => proc'.handled = proc.handled]_vars

\* An input event that decoded was rejected by the predicate of its handler,
\* and the message handled before it is still the last one handled.
C28_Witness ==
    /\ proc.predicate = "active_input_only"
    /\ proc.event_id = "InputChanged"
    /\ proc.value = Json([activeInput |-> "false"])
    /\ ~proc.dispatched
    /\ proc.handled.variant = "Network"

----------------------------------------------------------------------------
(* Properties of concurrent dispatches (checked under SpecRouter)          *)

\* Some dispatch other than t is inside its handler (which may never end)
HandlerInFlightBeside(t) ==
    \E u \in Tasks \ {t} : task[u].pc \in {"running", "awaiting"}

\* C29: while the handler of another dispatch is under way, however long, a
\* request can be routed (route returns once the task is spawned) and a
\* dispatch that is not inside its own handler can take its next step, up to
\* the delivery of its answer. (A dispatch whose sink is empty waits for a
\* frame on its own account.)
C29_HungHandlerBlocksNoOther ==
    \A t \in Tasks :
        HandlerInFlightBeside(t) =>
            /\ (task[t].pc = "idle" /\ ~methods_poisoned) =>
                   \A m \in MethodNames : ENABLED Route(t, m, "ws-session")
            /\ (/\ task[t].pc \notin {"idle", "running", "awaiting"}
                /\ ~(task[t].pc = "joined" /\ task[t].sink = <<>>)) =>
                   ENABLED (ResolveRoute(t) \/ Respond(t) \/ TaskExit(t))

\* A request was dispatched to its handler and answered with the handler's
\* result while the handler of another request is still under way.
C29_Witness ==
    \E t \in Tasks, u \in Tasks :
        /\ task[u].pc \in {"running", "awaiting"}
        /\ task[t].pc = "done"
        /\ task[t].invoked
        /\ task[t].out.kind = "result"
        /\ Len(task[t].sent) = 1

\* C30: no dispatch keeps the read guard of the method table past its
\* snapshot, so an update_methods call (here one that registers device.name)
\* can take the write lock and complete whatever handlers are in flight,
\* unless the lock is poisoned.
C30_NoLockHeldAcrossHandler ==
    /\ \A t \in Tasks : task[t].read_guard # "held"
    /\ (generation < MaxUpdates /\ ~methods_poisoned) =>
           ENABLED update_methods([m \in {"device.name"} |->
                       [kind |-> "Async", units |-> 0, label |-> "cpu"]])

\* Both dispatch tasks are inside their handlers, the write lock is not
\* poisoned and a further update_methods call can be made.
C30_Witness ==
    /\ \A t \in Tasks :
           task[t].pc \in {"running", "awaiting"} /\ task[t].read_guard = "dropped"
    /\ generation < MaxUpdates
    /\ ~methods_poisoned
    /\ methods["device.name"] = NoMethod

----------------------------------------------------------------------------
(* Correlation of responses with requests (checked under SpecRouter)       *)

\* C31: with any number of requests in flight, every frame written for a
\* request carries that request's own call_id, and the ApiMessage sent for
\* it carries that request's own request_id; it is never tagged with the
\* call_id or request_id of another request in flight.
C31_ResponseTaggedWithOwnIds ==
    \A t \in Tasks :
        /\ \A i \in DOMAIN task[t].sink :
               task[t].sink[i].id = task[t].req.call_id
        /\ task[t].pc = "done" =>
               /\ task[t].out.id = task[t].req.call_id
               /\ \A i \in DOMAIN task[t].sent :
                      /\ task[t].sent[i].msg.request_id = task[t].req.request_id
                      /\ task[t].sent[i].msg.jsonrpc_msg.id = task[t].req.call_id
                      /\ \A u \in Tasks \ {t} :
                             task[u].pc # "idle" =>
                                 /\ task[t].sent[i].msg.request_id
                                        # task[u].req.request_id
                                 /\ task[t].sent[i].msg.jsonrpc_msg.id
                                        # task[u].req.call_id

\* Two requests were in flight together and both have been answered, one by
\* its handler and one by the router's own error frame.
C31_Witness ==
    /\ \A t \in Tasks : task[t].pc = "done" /\ Len(task[t].sent) = 1
    /\ task[1].req.call_id # task[2].req.call_id
    /\ task[1].invoked /\ ~task[2].invoked
    /\ \A t \in Tasks :
           /\ task[t].sent[1].msg.request_id = RequestId(t)
           /\ task[t].sent[1].msg.jsonrpc_msg.id = CallId(t)

----------------------------------------------------------------------------
(* The connections of a successful setup (checked under SpecPool)          *)

\* C32: a setup that returns Ok for pool_size = n (n >= 2) has opened one
\* connection for the controller and n - 1 for the request pool, in that
\* order; the plugin manager is started on the controller connection after
\* it opened and before the request pool is opened, and the request pool is
\* given the plugin manager's channel.
C32_ControllerThenManagerThenPool ==
    /\ pool.result = "Ok" =>
           /\ pool.pool_size >= 2
           /\ pool.starts =
                  << [role |-> "controller", plugin_manager_tx |-> FALSE,
                      size |-> 1, outcome |-> "Ok"],
                     [role |-> "request", plugin_manager_tx |-> TRUE,
                      size |-> pool.pool_size - 1, outcome |-> "Ok"] >>
           /\ pool.plugin_manager.started
    /\ pool.plugin_manager.started =>
           /\ Len(pool.starts) >= 1
           /\ pool.starts[1].role = "controller"
           /\ pool.starts[1].outcome = "Ok"
    /\ pool.pc = "request_pool" =>
           pool.plugin_manager.started /\ Len(pool.starts) = 1
    /\ \A i \in DOMAIN pool.starts :
           pool.starts[i].role = "request" =>
               /\ i = 2
               /\ pool.plugin_manager.started
               /\ pool.starts[i].plugin_manager_tx

\* A setup with pool_size 3 has returned Ok: one controller connection, then
\* two connections for the request pool.
C32_Witness ==
    /\ pool.pc = "returned" /\ pool.result = "Ok"
    /\ pool.pool_size = 3
    /\ Len(pool.starts) = 2
    /\ pool.starts[1].size = 1 /\ pool.starts[2].size = 2
    /\ pool.plugin_manager.started

----------------------------------------------------------------------------
(* The status events of setup (checked under SpecPool)                     *)

\* The start calls of this invocation that failed / that opened.
FailedStarts == {i \in DOMAIN pool.starts : pool.starts[i].outcome # "Ok"}
BothOpened ==
    /\ Len(pool.starts) = 2
    /\ \A i \in DOMAIN pool.starts : pool.starts[i].outcome = "Ok"

\* C38: one invocation of setup emits at most one ExtnStatus event. Ready is
\* emitted exactly when both the controller connection and the request pool
\* opened, and setup then returns Ok; Error is emitted exactly when a
\* connection attempt failed, and setup then returns that error. Ready is
\* never emitted before the request pool is connected nor next to Error.
C38_AtMostOneStatusEvent ==
    /\ Len(pool.events) <= 1
    /\ "Ready" \in Range(pool.events) =>
           BothOpened /\ pool.pc = "returned" /\ pool.result = "Ok"
    /\ (pool.pc = "returned" /\ BothOpened) =>
           pool.events = <<"Ready">> /\ pool.result = "Ok"
    /\ "Error" \in Range(pool.events) <=> FailedStarts # {}
    /\ FailedStarts # {} =>
           /\ pool.pc = "returned"
           /\ pool.result = pool.starts[Len(pool.starts)].outcome
           /\ pool.result # "Ok"
    /\ pool.result = "Ok" => pool.events = <<"Ready">>
    /\ ~("Ready" \in Range(pool.events) /\ "Error" \in Range(pool.events))

\* Setup has returned Ok after both start calls opened, with Ready as its
\* one event.
C38_Witness ==
    /\ pool.pc = "returned" /\ pool.result = "Ok"
    /\ BothOpened
    /\ pool.events = <<"Ready">>

----------------------------------------------------------------------------
(* Termination of a dispatch (checked under SpecRouter)                    *)

\* C33: every dispatch terminates: once the handler of a request (if it has
\* one) has finished, resolve_route can return, whatever the sink holds:
\* also when the handler wrote no frame and when the method kind is
\* unsupported.
C33_DispatchTerminates ==
    \A t \in Tasks :
        task[t].pc = "joined" => ENABLED Respond(t)

----------------------------------------------------------------------------
(* Two apps on one event (checked under SpecListeners)                     *)

\* C34: for an event and two distinct apps a and b that both listen on it,
\* the unlisten of b alone returns false and leaves the handler stored with
\* a in its listener set: the handler is deleted only when no listening app
\* remains.
C34_UnlistenOfOneKeepsTheOther ==
    [][\A t \in Threads :
          (Returns(t) /\ ~lcall[t].listen) =>
              LET b == lcall[t].app_id
                  e == lcall[t].id
              IN  \A a \in Apps \ {b} :
                      (ops[a][e] = "listening" /\ ops[b][e] = "listening") =>
                          /\ lret'[t] = FALSE
                          /\ event_map'[e] # NoHandler
                          /\ a \in Range(event_map'[e].listeners)
                          /\ b \notin Range(event_map'[e].listeners)]_vars

\* appA and appB listened on one event, then appB unlistened: its call
\* returned false and the handler is left with appA alone.
C34_Witness ==
    \E e \in Events, t \in Threads :
        /\ lpc[t] = "idle"
        /\ lcall[t] = [listen |-> FALSE, app_id |-> "appB", id |-> e]
        /\ lret[t] = FALSE
        /\ ops["appA"][e] = "listening"
        /\ ops["appB"][e] = "collapsed"
        /\ event_map[e] # NoHandler
        /\ event_map[e].listeners = <<"appA">>

----------------------------------------------------------------------------
(* Concurrent emissions (checked under SpecEmitters)                       *)

\* The branch a call past its comparison is about to take forwards its event.
Forwards(t) ==
    dcall[t].pc = "compared" /\ dcall[t].same /\ Forwardable(dcall[t].event)

----------------------------------------------------------------------------
(* The last-event cache (checked under SpecDedup)                          *)

\* The emissions of one event name that were forwarded, in order.
ForwardedStream(n) == SelectSeq(Stream(n), LAMBDA r : r.forwarded)

----------------------------------------------------------------------------
(* Registration as a whole (checked under SpecRegistry)                    *)

\* The method names of the set an update_methods step was called with.
Incoming == {m \in MethodNames : latest'[m] # latest[m]}

\* C37: update_methods is all-or-nothing. A call either adds every method of
\* its set or leaves the table exactly as it was; a set that cannot be
\* merged because one of its names is already registered adds nothing, and
\* the call returns to its caller like any other.
C37_UpdateAllOrNothing ==
    [][generation' # generation =>
          /\ \A m \in MethodNames \ Incoming : methods'[m] = methods[m]
          /\ \/ methods' = methods
             \/ \A m \in Incoming :
                    /\ methods[m] = NoMethod
                    /\ methods'[m] # NoMethod
                    /\ methods'[m].handler = generation'
          /\ (\E m \in Incoming : methods[m] # NoMethod) => methods' = methods
          /\ ((\E m \in Incoming : methods[m] # NoMethod) /\ ~methods_poisoned')
                 => UNCHANGED <<methods, methods_poisoned, totals, task,
                                extn_panicked>>
      ]_vars

\* The second update_methods call brought both method names, one of them
\* registered by the first call: the table still holds that one entry only.
C37_Witness ==
    /\ generation = 2
    /\ ~methods_poisoned
    /\ \A m \in MethodNames : latest[m] = 2
    /\ \E m \in MethodNames :
           /\ methods[m] # NoMethod /\ methods[m].handler = 1
           /\ \A k \in MethodNames \ {m} : methods[k] = NoMethod

----------------------------------------------------------------------------
(* The table after a refused registration (checked under SpecRegistry)     *)

\* C39: whatever update_methods calls were made, refused ones among them,
\* the table stays usable: a request that arrives can be routed, get_methods
\* gives it a snapshot of the table.
C39_TableStaysUsable ==
    task[1].pc = "idle" =>
        \A m \in MethodNames : ENABLED Route(1, m, "ws-session")

----------------------------------------------------------------------------
(* The provider map (checked under SpecLibrary)                            *)

\* The positions of the library entries whose embedded manifest lists
\* capability c as provided, required or optional.
ProvidingEntries(apps, c) ==
    {i \in DOMAIN apps :
        /\ apps[i].manifest.kind = "Embedded"
        /\ c \in Range(apps[i].manifest.required)
                     \cup Range(apps[i].manifest.optional)}

\* The app_id of the last of them in list order, if there is one.
LastProvider(apps, c) ==
    LET I == ProvidingEntries(apps, c)
    IN  IF I = {}
        THEN NoProvider
        ELSE apps[CHOOSE i \in I : \A j \in I : j <= i].app_id

\* C40: the provider map AppLibraryState::new builds maps each capability to
\* the app_id of the last library entry whose embedded manifest provides it,
\* get_provider returns that app_id, or None for a capability no embedded
\* manifest provides; entries with Remote or Local manifests add nothing.
C40_ProviderIsLastEmbeddedEntry ==
    lib.pc = "built" =>
        /\ \A c \in Capabilities :
               lib.providers[c] = LastProvider(lib.default_apps, c)
        /\ lib.capability \in Capabilities =>
               lib.provider = LastProvider(lib.default_apps, lib.capability)
        /\ lib.providers =
               generate_provider_map(
                   SelectSeq(lib.default_apps,
                             LAMBDA app : app.manifest.kind = "Embedded"))

\* Two entries with different app ids both provide the capability asked for,
\* one as required and one as optional: get_provider returned the second.
C40_Witness ==
    /\ lib.pc = "built"
    /\ Len(lib.default_apps) = 2
    /\ lib.default_apps[1].app_id # lib.default_apps[2].app_id
    /\ lib.capability \in Capabilities
    /\ ProvidingEntries(lib.default_apps, lib.capability) = {1, 2}
    /\ lib.capability \in Range(lib.default_apps[1].manifest.required)
    /\ lib.capability \in Range(lib.default_apps[2].manifest.optional)
    /\ lib.provider = lib.default_apps[2].app_id

====
